---- MODULE Spec2Model ----
(***************************************************************************)
(* Model of the ESPSOL transaction builder (components/espsol/src/         *)
(* espsol_tx.c): instruction accumulation, account compilation, signing    *)
(* and serialization of one transaction handle.                            *)
(*                                                                         *)
(* A 32-byte public key or blockhash is represented by an integer; the     *)
(* all-zero byte string (calloc'd memory, the System Program id) is 0.     *)
(* C arrays with a separate count are sequences (1-based here, 0-based in  *)
(* the code); signature slots keep the code's 0-based index.               *)
(***************************************************************************)
EXTENDS Integers, Sequences, FiniteSets, TLC

(* ------------------------------------------------------------------ *)
(* Program constants                                                  *)
(* ------------------------------------------------------------------ *)
ESP_OK == 0
ESP_FAIL == -1
ESP_ERR_INVALID_ARG == 258
ESP_ERR_ESPSOL_BUFFER_TOO_SMALL == 327682
ESP_ERR_ESPSOL_ENCODING_FAILED == 327683
ESP_ERR_ESPSOL_INVALID_BASE58 == 327684
ESP_ERR_ESPSOL_INVALID_BASE64 == 327685
ESP_ERR_ESPSOL_KEYPAIR_NOT_INIT == 327686
ESP_ERR_ESPSOL_SIGNATURE_INVALID == 327687
ESP_ERR_ESPSOL_RPC_FAILED == 327688
ESP_ERR_ESPSOL_RPC_PARSE_ERROR == 327689
ESP_ERR_ESPSOL_TX_BUILD_ERROR == 327690
ESP_ERR_ESPSOL_TX_NOT_SIGNED == 327691
ESP_ERR_ESPSOL_MAX_ACCOUNTS == 327692
ESP_ERR_ESPSOL_MAX_INSTRUCTIONS == 327693
ESP_ERR_ESPSOL_CRYPTO_ERROR == 327695
ESP_ERR_ESPSOL_NETWORK_ERROR == 327696
ESP_ERR_ESPSOL_RATE_LIMITED == 327699
ESP_ERR_ESPSOL_INVALID_MNEMONIC == 327700

ESPSOL_PUBKEY_SIZE == 32
ESPSOL_PRIVKEY_SIZE == 64
ESPSOL_SEED_SIZE == 32
ESPSOL_ADDRESS_MAX_LEN == 45
ESPSOL_MNEMONIC_12_WORDS == 12
ESPSOL_MNEMONIC_24_WORDS == 24
ESPSOL_WS_MAX_SUBSCRIPTIONS == 16
ESPSOL_SIGNATURE_SIZE == 64
ESPSOL_BLOCKHASH_SIZE == 32
ESPSOL_MAX_INSTRUCTIONS == 10
ESPSOL_MAX_ACCOUNTS == 20
ESPSOL_MAX_SIGNERS == 4
ESPSOL_MAX_TX_SIZE == 1232
ESPSOL_MAX_INSTRUCTION_DATA == 256

\* Well-known program ids, named by their leading byte.
ESPSOL_SYSTEM_PROGRAM_ID == 0
ESPSOL_MEMO_PROGRAM_ID == 5
ESPSOL_TOKEN_PROGRAM_ID == 6

(* ------------------------------------------------------------------ *)
(* Bounds of the model                                                *)
(* ------------------------------------------------------------------ *)
\* Number of wallet public keys the caller uses (keys 11..10+NumKeys).
NumKeys == 2
\* Number of distinct recent blockhashes the caller supplies.
NumHashes == 1
\* Instructions the caller adds to one transaction before it stops adding.
MaxIx == 2
\* The same, for a caller that adds full-size memos.
MaxLong == 5
\* Instructions with a full-size account list at the head of a transaction.
MaxWide == 1
\* Instructions before the capacity of the list that a caller filling it
\* with memos may choose freely.
MaxTail == 2
\* Longest byte string that is encoded and decoded again.
MaxData == 256
\* Longest base-64 text decoded character by character.
MaxText == 5
MaxAttempts == 258
MaxRequests == 3
MaxBuffer == 5

UserKeys == 11..(10 + NumKeys)
Blockhashes == 1..NumHashes
\* Further account keys, used to fill wide account lists.
FillerKey(i) == 100 + i

SignerSlots == 0..(ESPSOL_MAX_SIGNERS - 1)

(* ------------------------------------------------------------------ *)
(* Account table: find_or_add_account and compile_accounts            *)
(* ------------------------------------------------------------------ *)
Meta(k, s, w) == [pubkey |-> k, is_signer |-> s, is_writable |-> w]

pubkey_equals(a, b) == a = b

\* Index (1-based) of the first entry holding pubkey, or 0.
RECURSIVE FirstIndex(_, _, _)
FirstIndex(accounts, pubkey, i) ==
    IF i > Len(accounts) THEN 0
    ELSE IF pubkey_equals(accounts[i].pubkey, pubkey) THEN i
    ELSE FirstIndex(accounts, pubkey, i + 1)

\* find_or_add_account that leaves the flags of an entry it finds as they are.
find_or_add_account_keep_flags(accounts, pubkey, is_signer, is_writable) ==
    LET Found(i) ==
            IF i > 0 THEN [accounts |-> accounts, idx |-> i - 1]
            ELSE IF Len(accounts) >= ESPSOL_MAX_ACCOUNTS
            THEN [accounts |-> accounts, idx |-> -1]
            ELSE [accounts |-> Append(accounts, Meta(pubkey, is_signer, is_writable)),
                  idx |-> Len(accounts)]
    IN Found(FirstIndex(accounts, pubkey, 1))

\* find_or_add_account with a capacity check that lets one more entry in.
find_or_add_account_one_more(accounts, pubkey, is_signer, is_writable) ==
    LET Found(i) ==
            IF i > 0
            THEN [accounts |-> [accounts EXCEPT
                      ![i].is_signer = accounts[i].is_signer \/ is_signer,
                      ![i].is_writable = accounts[i].is_writable \/ is_writable],
                  idx |-> i - 1]
            ELSE IF Len(accounts) > ESPSOL_MAX_ACCOUNTS
            THEN [accounts |-> accounts, idx |-> -1]
            ELSE [accounts |-> Append(accounts, Meta(pubkey, is_signer, is_writable)),
                  idx |-> Len(accounts)]
    IN Found(FirstIndex(accounts, pubkey, 1))

\* Returns the table and the code's 0-based index, or -1 when the table is full.
find_or_add_account(accounts, pubkey, is_signer, is_writable) ==
    LET Found(i) ==
            IF i > 0
            THEN [accounts |-> [accounts EXCEPT
                      ![i].is_signer = accounts[i].is_signer \/ is_signer,
                      ![i].is_writable = accounts[i].is_writable \/ is_writable],
                  idx |-> i - 1]
            ELSE IF Len(accounts) >= ESPSOL_MAX_ACCOUNTS
            THEN [accounts |-> accounts, idx |-> -1]
            ELSE [accounts |-> Append(accounts, Meta(pubkey, is_signer, is_writable)),
                  idx |-> Len(accounts)]
    IN Found(FirstIndex(accounts, pubkey, 1))

\* The references one instruction makes, in the order compile_accounts walks them.
InstructionRefs(ix) == <<Meta(ix.program_id, FALSE, FALSE)>> \o ix.accounts

RECURSIVE AllInstructionRefs(_, _)
AllInstructionRefs(instructions, i) ==
    IF i > Len(instructions) THEN <<>>
    ELSE InstructionRefs(instructions[i]) \o AllInstructionRefs(instructions, i + 1)

\* Every reference in walk order: fee payer first (writable signer), then instructions.
References(t) ==
    (IF t.has_fee_payer THEN <<Meta(t.fee_payer, TRUE, TRUE)>> ELSE <<>>)
        \o AllInstructionRefs(t.instructions, 1)

\* The walk of compile_accounts; stops at the first reference that does not fit.
RECURSIVE AddReferences(_, _, _)
AddReferences(accounts, refs, k) ==
    IF k > Len(refs) THEN [accounts |-> accounts, ok |-> TRUE]
    ELSE LET Added(r) ==
                 IF r.idx < 0 THEN [accounts |-> r.accounts, ok |-> FALSE]
                 ELSE AddReferences(r.accounts, refs, k + 1)
         IN Added(find_or_add_account(accounts, refs[k].pubkey,
                                      refs[k].is_signer, refs[k].is_writable))

\* A priority that forgets the writable flag.
PrioritySignerOnly(e) == IF e.is_signer THEN 2 ELSE 0

Priority(e) == (IF e.is_signer THEN 2 ELSE 0) + (IF e.is_writable THEN 1 ELSE 0)

Swap(a, i, j) == [a EXCEPT ![i] = a[j], ![j] = a[i]]

\* The inner loop with the comparison priority_j >= priority_i.
RECURSIVE SortInnerSwapEqual(_, _, _)
SortInnerSwapEqual(a, i, j) ==
    IF j > Len(a) THEN a
    ELSE SortInnerSwapEqual(IF Priority(a[j]) >= Priority(a[i]) THEN Swap(a, i, j) ELSE a,
                            i, j + 1)

\* Inner loop of the sort: j runs over i+1 .. account_count.
RECURSIVE SortInner(_, _, _)
SortInner(a, i, j) ==
    IF j > Len(a) THEN a
    ELSE SortInner(IF Priority(a[j]) > Priority(a[i]) THEN Swap(a, i, j) ELSE a,
                   i, j + 1)

\* Outer loop of the sort: i runs over 0 .. account_count-1.
RECURSIVE SortAccounts(_, _)
SortAccounts(a, i) ==
    IF i > Len(a) THEN a
    ELSE SortAccounts(SortInner(a, i, i + 1), i + 1)

CountSigners(a) == Cardinality({i \in 1..Len(a) : a[i].is_signer})

\* compile_accounts: returns the transaction after the call and the error code.
compile_accounts(t) ==
    LET Sorted(sorted) ==
            [tx |-> [t EXCEPT !.accounts = sorted,
                              !.required_signers = CountSigners(sorted),
                              !.accounts_compiled = TRUE],
             err |-> ESP_OK]
        Walked(w) ==
            IF ~w.ok
            THEN [tx |-> [t EXCEPT !.accounts = w.accounts, !.required_signers = 0],
                  err |-> ESP_ERR_ESPSOL_MAX_ACCOUNTS]
            ELSE Sorted(SortAccounts(w.accounts, 1))
    IN
    IF t.accounts_compiled THEN [tx |-> t, err |-> ESP_OK]
    ELSE Walked(AddReferences(<<>>, References(t), 1))

find_account_index(t, pubkey) == FirstIndex(t.accounts, pubkey, 1) - 1

(* ------------------------------------------------------------------ *)
(* Message serialization                                              *)
(* ------------------------------------------------------------------ *)
Max(a, b) == IF a > b THEN a ELSE b

\* write_compact_u16: number of bytes written for value.
write_compact_u16(value) ==
    IF value < 128 THEN 1 ELSE IF value < 16384 THEN 2 ELSE 3

\* The account-index loop of one instruction, from account j (1-based) on.
\* hi is one past the highest buffer offset written so far.
RECURSIVE SerializeIndices(_, _, _, _, _, _)
SerializeIndices(t, ix, j, buffer_len, offset, hi) ==
    IF j > Len(ix.accounts) THEN [err |-> ESP_OK, offset |-> offset, hi |-> hi]
    ELSE IF find_account_index(t, ix.accounts[j].pubkey) < 0
    THEN [err |-> ESP_ERR_ESPSOL_TX_BUILD_ERROR, offset |-> offset, hi |-> hi]
    ELSE IF offset + 1 > buffer_len
    THEN [err |-> ESP_ERR_ESPSOL_BUFFER_TOO_SMALL, offset |-> offset, hi |-> hi]
    ELSE SerializeIndices(t, ix, j + 1, buffer_len, offset + 1, Max(hi, offset + 1))

\* The instruction loop of serialize_message, from instruction i (1-based) on.
RECURSIVE SerializeInstructions(_, _, _, _, _)
SerializeInstructions(t, i, buffer_len, offset, hi) ==
    IF i > Len(t.instructions) THEN [err |-> ESP_OK, offset |-> offset, hi |-> hi]
    ELSE
    LET ix == t.instructions[i]
        \* The data of the instruction, after its account indices a.
        Data(a, o3) ==
            IF o3 + ix.data_len > buffer_len
            THEN [err |-> ESP_ERR_ESPSOL_BUFFER_TOO_SMALL, offset |-> o3,
                  hi |-> Max(a.hi, o3)]
            ELSE SerializeInstructions(t, i + 1, buffer_len, o3 + ix.data_len,
                                       Max(a.hi, o3 + ix.data_len))
        Indices(a) ==
            IF a.err # ESP_OK THEN a
            ELSE Data(a, a.offset + write_compact_u16(ix.data_len))
        \* The account indices, after the program id index and the count at o2.
        Accounts(o2) == Indices(SerializeIndices(t, ix, 1, buffer_len, o2, Max(hi, o2)))
    IN
    IF find_account_index(t, ix.program_id) < 0
    THEN [err |-> ESP_ERR_ESPSOL_TX_BUILD_ERROR, offset |-> offset, hi |-> hi]
    ELSE IF offset + 1 > buffer_len
    THEN [err |-> ESP_ERR_ESPSOL_BUFFER_TOO_SMALL, offset |-> offset, hi |-> hi]
    ELSE Accounts(offset + 1 + write_compact_u16(Len(ix.accounts)))

\* serialize_message: the transaction after the call, the error code, *out_len
\* (-1: not assigned) and hi, one past the highest offset of buffer written.
serialize_message(t, buffer_len) ==
    LET Fail(u, e, h) == [tx |-> u, err |-> e, out_len |-> -1, hi |-> h]
        Instructions(u, r) ==
            IF r.err # ESP_OK THEN Fail(u, r.err, r.hi)
            ELSE [tx |-> u, err |-> ESP_OK, out_len |-> r.offset, hi |-> r.hi]
        \* The compiled instructions, after the instruction count at o4.
        Body(u, o4) == Instructions(u, SerializeInstructions(u, 1, buffer_len, o4, o4))
        \* The blockhash at o2, after the account keys.
        Blockhash(u, o2) ==
            IF o2 + ESPSOL_BLOCKHASH_SIZE > buffer_len
            THEN Fail(u, ESP_ERR_ESPSOL_BUFFER_TOO_SMALL, o2)
            ELSE Body(u, o2 + ESPSOL_BLOCKHASH_SIZE
                            + write_compact_u16(Len(u.instructions)))
        \* The account keys at o1, after the header and the account count.
        Keys(u, o1) ==
            IF o1 + Len(u.accounts) * ESPSOL_PUBKEY_SIZE > buffer_len
            THEN Fail(u, ESP_ERR_ESPSOL_BUFFER_TOO_SMALL, o1)
            ELSE Blockhash(u, o1 + Len(u.accounts) * ESPSOL_PUBKEY_SIZE)
        Compiled(c) ==
            IF c.err # ESP_OK THEN Fail(c.tx, c.err, 0)
            ELSE IF ~c.tx.has_blockhash
            THEN Fail(c.tx, ESP_ERR_ESPSOL_TX_BUILD_ERROR, 0)
            ELSE IF 3 > buffer_len THEN Fail(c.tx, ESP_ERR_ESPSOL_BUFFER_TOO_SMALL, 0)
            ELSE Keys(c.tx, 3 + write_compact_u16(Len(c.tx.accounts)))
    IN Compiled(compile_accounts(t))

(* ------------------------------------------------------------------ *)
(* Signing                                                            *)
(* ------------------------------------------------------------------ *)
\* A 64-byte signature slot: who produced its bytes (0: zeroed memory) and
\* whether both halves R and S were written by one run of the signer.
NoSignature == [signer |-> 0, complete |-> FALSE]
Signature(k) == [signer |-> k, complete |-> TRUE]
PartialSignature(k) == [signer |-> k, complete |-> FALSE]

\* The temporaries of espsol_ed25519_sign that hold secret bytes when it
\* returns after mallocs successful allocations: d (the SHA-512 expansion of
\* the seed), the freed block hm (the nonce prefix d[32..63]), r (the nonce)
\* and x (the nonce plus h times the secret scalar). None is overwritten.
Ed25519SignTemporaries(mallocs) ==
    {"d"} \cup (IF mallocs >= 1 THEN {"hm", "r"} ELSE {})
          \cup (IF mallocs >= 2 THEN {"x"} ELSE {})

\* A signer that does not look at keypair->initialized.
espsol_sign_unchecked(keypair, mallocs, old) ==
    IF mallocs = 0
    THEN [err |-> ESP_ERR_ESPSOL_CRYPTO_ERROR, signature |-> old,
          residue |-> Ed25519SignTemporaries(mallocs)]
    ELSE IF mallocs = 1
    THEN [err |-> ESP_ERR_ESPSOL_CRYPTO_ERROR,
          signature |-> PartialSignature(keypair.public_key),
          residue |-> Ed25519SignTemporaries(mallocs)]
    ELSE [err |-> ESP_OK, signature |-> Signature(keypair.public_key),
          residue |-> Ed25519SignTemporaries(mallocs)]

\* espsol_sign over the portable Ed25519 signer: mallocs is the number of its
\* heap allocations that succeed (it makes two; R is written between them).
espsol_sign(keypair, mallocs, old) ==
    IF ~keypair.initialized
    THEN [err |-> ESP_ERR_ESPSOL_KEYPAIR_NOT_INIT, signature |-> old, residue |-> {}]
    ELSE IF mallocs = 0
    THEN [err |-> ESP_ERR_ESPSOL_CRYPTO_ERROR, signature |-> old,
          residue |-> Ed25519SignTemporaries(mallocs)]
    ELSE IF mallocs = 1
    THEN [err |-> ESP_ERR_ESPSOL_CRYPTO_ERROR,
          signature |-> PartialSignature(keypair.public_key),
          residue |-> Ed25519SignTemporaries(mallocs)]
    ELSE [err |-> ESP_OK, signature |-> Signature(keypair.public_key),
          residue |-> Ed25519SignTemporaries(mallocs)]

\* A signer count that grows with every signature stored.
SignerCountIncrement(signer_count, signer_idx) == signer_count + 1

\* The signer count after slot signer_idx is signed: a high-water mark.
SignerCount(signer_count, signer_idx) ==
    IF signer_idx >= signer_count THEN signer_idx + 1 ELSE signer_count

\* A signer lookup that searches the whole account table.
FindAnyAccount(t, pubkey, i) == find_account_index(t, pubkey)

\* The signer lookup of espsol_tx_sign: 0-based index among the first
\* required_signers entries, or -1.
RECURSIVE FindSigner(_, _, _)
FindSigner(t, pubkey, i) ==
    IF ~(i < t.required_signers /\ i < Len(t.accounts)) THEN -1
    ELSE IF pubkey_equals(t.accounts[i + 1].pubkey, pubkey) THEN i
    ELSE FindSigner(t, pubkey, i + 1)

\* espsol_tx_sign: the transaction after the call, the error code, the slot
\* written (-1: none) and the signer's temporaries left with secret bytes.
espsol_tx_sign(t, keypair, mallocs) ==
    LET Stored(u, signer_idx, s, signer_count) ==
            [tx |-> [u EXCEPT !.signatures[signer_idx] = s.signature,
                              !.signer_pubkeys[signer_idx] = keypair.public_key,
                              !.signer_count = signer_count,
                              !.is_signed = (signer_count >= u.required_signers)],
             err |-> ESP_OK, slot |-> signer_idx, residue |-> s.residue]
        Signed(u, signer_idx, s) ==
            IF s.err # ESP_OK
            THEN [tx |-> [u EXCEPT !.signatures[signer_idx] = s.signature],
                  err |-> ESP_ERR_ESPSOL_CRYPTO_ERROR, slot |-> -1,
                  residue |-> s.residue]
            ELSE Stored(u, signer_idx, s, SignerCount(u.signer_count, signer_idx))
        Found(u, signer_idx) ==
            IF signer_idx < 0
            THEN [tx |-> u, err |-> ESP_ERR_ESPSOL_TX_BUILD_ERROR, slot |-> -1, residue |-> {}]
            ELSE IF signer_idx >= ESPSOL_MAX_SIGNERS
            THEN [tx |-> u, err |-> ESP_ERR_ESPSOL_MAX_ACCOUNTS, slot |-> -1, residue |-> {}]
            ELSE Signed(u, signer_idx,
                        espsol_sign(keypair, mallocs, u.signatures[signer_idx]))
        Message(m) ==
            IF m.err # ESP_OK THEN [tx |-> m.tx, err |-> m.err, slot |-> -1, residue |-> {}]
            ELSE Found(m.tx, FindSigner(m.tx, keypair.public_key, 0))
        Compiled(c) ==
            IF c.err # ESP_OK THEN [tx |-> c.tx, err |-> c.err, slot |-> -1, residue |-> {}]
            ELSE IF ~c.tx.has_blockhash
            THEN [tx |-> c.tx, err |-> ESP_ERR_ESPSOL_TX_BUILD_ERROR, slot |-> -1, residue |-> {}]
            ELSE Message(serialize_message(c.tx, ESPSOL_MAX_TX_SIZE))
    IN Compiled(compile_accounts(t))

(* ------------------------------------------------------------------ *)
(* Final serialization and text encodings                             *)
(* ------------------------------------------------------------------ *)
\* The signature loop of espsol_tx_serialize, from slot i (0-based) on.
RECURSIVE SerializeSignatures(_, _, _, _, _)
SerializeSignatures(t, i, buffer_len, offset, hi) ==
    IF ~(i < t.required_signers) THEN [err |-> ESP_OK, offset |-> offset, hi |-> hi]
    ELSE IF offset + ESPSOL_SIGNATURE_SIZE > buffer_len
    THEN [err |-> ESP_ERR_ESPSOL_BUFFER_TOO_SMALL, offset |-> offset, hi |-> hi]
    ELSE SerializeSignatures(t, i + 1, buffer_len, offset + ESPSOL_SIGNATURE_SIZE,
                             Max(hi, offset + ESPSOL_SIGNATURE_SIZE))

\* size_t subtraction buffer_len - offset: a negative difference wraps to a
\* value just below SIZE_MAX, which stands for a buffer without a usable limit.
SizeSub(a, b) == IF a >= b THEN a - b ELSE 2147483647 - (b - a)

\* espsol_tx_serialize without its is_signed check.
espsol_tx_serialize_unchecked(t, buffer_len) ==
    LET Message(g, m, h) ==
            IF m.err # ESP_OK
            THEN [tx |-> m.tx, err |-> m.err, out_len |-> -1, hi |-> h]
            ELSE [tx |-> m.tx, err |-> ESP_OK, out_len |-> g.offset + m.out_len,
                  hi |-> h]
        Written(g, m) ==
            Message(g, m, IF m.hi = 0 THEN g.hi ELSE Max(g.hi, g.offset + m.hi))
        Signatures(g) ==
            IF g.err # ESP_OK THEN [tx |-> t, err |-> g.err, out_len |-> -1, hi |-> g.hi]
            ELSE Written(g, serialize_message(t, SizeSub(buffer_len, g.offset)))
        Count(o1) == Signatures(SerializeSignatures(t, 0, buffer_len, o1, o1))
    IN Count(write_compact_u16(t.required_signers))

\* espsol_tx_serialize: transaction after the call, error code, *out_len
\* (-1: not assigned) and hi, one past the highest offset of buffer written.
espsol_tx_serialize(t, buffer_len) ==
    LET Message(g, m, h) ==
            IF m.err # ESP_OK
            THEN [tx |-> m.tx, err |-> m.err, out_len |-> -1, hi |-> h]
            ELSE [tx |-> m.tx, err |-> ESP_OK, out_len |-> g.offset + m.out_len,
                  hi |-> h]
        Written(g, m) ==
            Message(g, m, IF m.hi = 0 THEN g.hi ELSE Max(g.hi, g.offset + m.hi))
        Signatures(g) ==
            IF g.err # ESP_OK THEN [tx |-> t, err |-> g.err, out_len |-> -1, hi |-> g.hi]
            ELSE Written(g, serialize_message(t, SizeSub(buffer_len, g.offset)))
        \* The signatures, after the signature count at o1.
        Count(o1) == Signatures(SerializeSignatures(t, 0, buffer_len, o1, o1))
    IN
    IF ~t.is_signed
    THEN [tx |-> t, err |-> ESP_ERR_ESPSOL_TX_NOT_SIGNED, out_len |-> -1, hi |-> 0]
    ELSE Count(write_compact_u16(t.required_signers))

espsol_base64_encoded_len(data_len) == ((data_len + 2) \div 3) * 4 + 1

\* espsol_base64_encode: error code and characters written (terminator included).
espsol_base64_encode(data_len, output_len) ==
    IF output_len < espsol_base64_encoded_len(data_len)
    THEN [err |-> ESP_ERR_ESPSOL_BUFFER_TOO_SMALL, hi |-> 0]
    ELSE [err |-> ESP_OK, hi |-> espsol_base64_encoded_len(data_len)]

espsol_base58_encoded_len(data_len) == (data_len * 138) \div 100 + 2

\* Size of the working buffer temp[] of espsol_base58_encode.
Base58TempSize == 256

\* The digit counts a data_len-byte value without leading zero bytes can have
\* in base 58 (log58(256) lies between 1.3656 and 1.3657).
Base58Digits(data_len) ==
    { d \in 1..(2 * data_len) :
        /\ d >= ((data_len - 1) * 13656) \div 10000 + 1
        /\ d <= (data_len * 13657) \div 10000 + 1 }

\* espsol_base58_encode of data_len > 0 bytes whose first byte is non-zero
\* and whose digit count is digits.
espsol_base58_encode(data_len, digits, output_len) ==
    IF espsol_base58_encoded_len(data_len) > Base58TempSize
    THEN [err |-> ESP_ERR_ESPSOL_BUFFER_TOO_SMALL, hi |-> 0]
    ELSE IF output_len < digits + 1
    THEN [err |-> ESP_ERR_ESPSOL_BUFFER_TOO_SMALL, hi |-> 0]
    ELSE [err |-> ESP_OK, hi |-> digits + 1]

\* espsol_tx_to_base64: transaction after the call, error code, characters written.
espsol_tx_to_base64(t, output_len) ==
    LET Encoded(r, e) == [tx |-> r.tx, err |-> e.err, hi |-> e.hi]
        Serialized(r) ==
            IF r.err # ESP_OK THEN [tx |-> r.tx, err |-> r.err, hi |-> 0]
            ELSE Encoded(r, espsol_base64_encode(r.out_len, output_len))
    IN
    IF output_len = 0 THEN [tx |-> t, err |-> ESP_ERR_INVALID_ARG, hi |-> 0]
    ELSE Serialized(espsol_tx_serialize(t, ESPSOL_MAX_TX_SIZE))

\* espsol_tx_to_base58, for a serialized transaction whose base-58 digit
\* count is digits.
espsol_tx_to_base58(t, digits, output_len) ==
    LET Encoded(r, e) == [tx |-> r.tx, err |-> e.err, hi |-> e.hi]
        Serialized(r) ==
            IF r.err # ESP_OK THEN [tx |-> r.tx, err |-> r.err, hi |-> 0]
            ELSE Encoded(r, espsol_base58_encode(r.out_len, digits, output_len))
    IN
    IF output_len = 0 THEN [tx |-> t, err |-> ESP_ERR_INVALID_ARG, hi |-> 0]
    ELSE Serialized(espsol_tx_serialize(t, ESPSOL_MAX_TX_SIZE))

\* espsol_base58_decoded_len
espsol_base58_decoded_len(encoded_len) == (encoded_len * 733) \div 1000 + 2

\* The byte counts a number written with digits base-58 digits, the first of
\* them not '1', can have (log256(58) lies between 0.732247 and 0.732248).
Base58Bytes(digits) ==
    { n \in 1..digits :
        /\ n >= ((digits - 1) * 732247) \div 1000000 + 1
        /\ n <= (digits * 732248) \div 1000000 + 1 }

\* A base-58 text: ones leading '1' characters, then digits further
\* characters; invalid: one of them is outside the alphabet; bytes: the byte
\* count of the number the digits spell.
Base58Text(ones, digits, invalid, bytes) ==
    [ones |-> ones, digits |-> digits, invalid |-> invalid, bytes |-> bytes]

\* espsol_base58_decode into a buffer of output_len bytes: the error code,
\* the value of *output_len when it returns, and whether temp[] holds decoded
\* bytes then (it is zeroed before the conversion, never after it).
espsol_base58_decode(input, output_len) ==
    LET input_len == input.ones + input.digits
        total_len == input.ones + input.bytes
    IN
    IF input_len = 0 THEN [err |-> ESP_OK, output_len |-> 0, temp |-> FALSE]
    ELSE IF espsol_base58_decoded_len(input_len) > Base58TempSize
    THEN [err |-> ESP_ERR_ESPSOL_BUFFER_TOO_SMALL, output_len |-> output_len,
          temp |-> FALSE]
    ELSE IF input.invalid
    THEN [err |-> ESP_ERR_ESPSOL_INVALID_BASE58, output_len |-> output_len,
          temp |-> input.bytes > 0]
    ELSE IF output_len < total_len
    THEN [err |-> ESP_ERR_ESPSOL_BUFFER_TOO_SMALL, output_len |-> total_len,
          temp |-> input.bytes > 0]
    ELSE [err |-> ESP_OK, output_len |-> total_len, temp |-> input.bytes > 0]

\* A base-64 text: its length, the number of '=' among its last two
\* characters, and whether the conversion meets a character it rejects.
Base64Text(len, padding, invalid) ==
    [len |-> len, padding |-> padding, invalid |-> invalid]

\* espsol_base64_decode: the error code and the value of *output_len when it
\* returns.
espsol_base64_decode(input, output_len) ==
    LET decoded_len == (input.len \div 4) * 3 - input.padding IN
    IF input.len = 0 THEN [err |-> ESP_OK, output_len |-> 0]
    ELSE IF input.len % 4 # 0
    THEN [err |-> ESP_ERR_ESPSOL_INVALID_BASE64, output_len |-> output_len]
    ELSE IF output_len < decoded_len
    THEN [err |-> ESP_ERR_ESPSOL_BUFFER_TOO_SMALL, output_len |-> decoded_len]
    ELSE IF input.invalid
    THEN [err |-> ESP_ERR_ESPSOL_INVALID_BASE64, output_len |-> output_len]
    ELSE [err |-> ESP_OK, output_len |-> decoded_len]

\* A hexadecimal text: its length, and whether one of its characters is not
\* a hexadecimal digit.
HexText(len, invalid) == [len |-> len, invalid |-> invalid]

\* espsol_hex_decode: the error code and the value of *output_len when it
\* returns.
espsol_hex_decode(input, output_len) ==
    LET decoded_len == input.len \div 2 IN
    IF input.len % 2 # 0
    THEN [err |-> ESP_ERR_ESPSOL_ENCODING_FAILED, output_len |-> output_len]
    ELSE IF output_len < decoded_len
    THEN [err |-> ESP_ERR_ESPSOL_BUFFER_TOO_SMALL, output_len |-> decoded_len]
    ELSE IF input.invalid
    THEN [err |-> ESP_ERR_ESPSOL_ENCODING_FAILED, output_len |-> output_len]
    ELSE [err |-> ESP_OK, output_len |-> decoded_len]

\* espsol_hex_encode: error code and characters written (terminator included).
espsol_hex_encode(data_len, output_len) ==
    IF output_len < data_len * 2 + 1
    THEN [err |-> ESP_ERR_ESPSOL_BUFFER_TOO_SMALL, hi |-> 0]
    ELSE [err |-> ESP_OK, hi |-> data_len * 2 + 1]

\* The text espsol_base64_encode writes for data_len bytes: four characters
\* for every three bytes begun, '=' for the bytes missing in the last group.
Base64Encoded(data_len) ==
    Base64Text(((data_len + 2) \div 3) * 4,
               IF data_len % 3 = 1 THEN 2 ELSE IF data_len % 3 = 2 THEN 1 ELSE 0,
               FALSE)

\* The text espsol_hex_encode writes for data_len bytes.
HexEncoded(data_len) == HexText(data_len * 2, FALSE)

\* The text espsol_base58_encode writes for zeros zero bytes followed by rest
\* bytes that spell a number of digits base-58 digits.
Base58Encoded(zeros, rest, digits) == Base58Text(zeros, digits, FALSE, rest)

\* The characters of a base-64 text by what BASE64_MAP makes of them: "a" a
\* character of the alphabet, "=" the padding character (-2), "!" any
\* other character (-1).
Base64Chars == {"a", "=", "!"}

\* Number of '=' among the last two characters, as espsol_base64_decode
\* counts them.
Base64Padding(chars) ==
    (IF Len(chars) >= 1 /\ chars[Len(chars)] = "=" THEN 1 ELSE 0)
        + (IF Len(chars) >= 2 /\ chars[Len(chars) - 1] = "=" THEN 1 ELSE 0)

\* The loop over 4-character blocks rejects a block: its first or second
\* character is not of the alphabet, or its third or fourth is neither of the
\* alphabet nor '='.
Base64Rejects(chars) ==
    \E b \in 0..(Len(chars) \div 4 - 1) :
        \/ chars[4 * b + 1] # "a"
        \/ chars[4 * b + 2] # "a"
        \/ chars[4 * b + 3] = "!"
        \/ chars[4 * b + 4] = "!"

\* espsol_base64_decode of a text given by its characters.
espsol_base64_decode_chars(chars, output_len) ==
    espsol_base64_decode(
        Base64Text(Len(chars), Base64Padding(chars),
                   Len(chars) % 4 = 0 /\ Base64Rejects(chars)),
        output_len)

(* ------------------------------------------------------------------ *)
(* Keypairs                                                           *)
(* ------------------------------------------------------------------ *)
\* A 32-byte seed is an integer, 0 the all-zero seed. The 64-byte private key
\* is the pair <<bytes 0..31 (the seed), bytes 32..63>>.
Seeds == 1..NumKeys

\* The Ed25519 public key of a seed (scalarbase of the clamped SHA-512 of the
\* seed): the seeds of the model own the wallet keys.
Ed25519Public(seed) == 10 + seed

ZeroKeypair == [public_key |-> 0, private_key |-> <<0, 0>>, initialized |-> FALSE]

\* espsol_ed25519_keypair_from_seed; its d[64], the SHA-512 expansion of the
\* seed, is not overwritten before it returns.
espsol_ed25519_keypair_from_seed(seed) ==
    [err |-> ESP_OK, public_key |-> Ed25519Public(seed),
     private_key |-> <<seed, Ed25519Public(seed)>>, residue |-> {"d"}]

espsol_keypair_init(k) == [keypair |-> ZeroKeypair, err |-> ESP_OK, residue |-> {}]

espsol_keypair_clear(k) ==
    [keypair |-> [k EXCEPT !.private_key = <<0, 0>>, !.public_key = 0,
                           !.initialized = FALSE],
     err |-> ESP_OK, residue |-> {}]

espsol_keypair_from_seed(seed, k) ==
    LET Derived(z, d) ==
            IF d.err # ESP_OK
            THEN [keypair |-> espsol_keypair_clear(z).keypair, err |-> d.err,
                  residue |-> d.residue]
            ELSE [keypair |-> [z EXCEPT !.public_key = d.public_key,
                                        !.private_key = d.private_key,
                                        !.initialized = TRUE],
                  err |-> ESP_OK, residue |-> d.residue]
    IN Derived(espsol_keypair_init(k).keypair, espsol_ed25519_keypair_from_seed(seed))

\* espsol_keypair_generate; random_err is what espsol_random_seed returns and
\* seed the bytes it produced. seed[] is zeroed after the derivation.
espsol_keypair_generate(k, random_err, seed) ==
    IF random_err # ESP_OK THEN [keypair |-> k, err |-> random_err, residue |-> {}]
    ELSE espsol_keypair_from_seed(seed, k)

espsol_keypair_from_private_key(private_key, k) ==
    [keypair |-> [espsol_keypair_init(k).keypair EXCEPT
                      !.private_key = private_key,
                      !.public_key = private_key[2],
                      !.initialized = TRUE],
     err |-> ESP_OK, residue |-> {}]

\* espsol_keypair_from_base58 of a text that fills decoded[64] with the pair
\* decoded (32 bytes, a seed, leave its second half untouched).
espsol_keypair_from_base58(base58_key, decoded, k) ==
    LET Temp(d) == IF d.temp THEN {"temp"} ELSE {}
        With(d, r) == [r EXCEPT !.residue = @ \cup Temp(d)]
        Decoded(d) ==
            IF d.err # ESP_OK
            THEN [keypair |-> k, err |-> d.err, residue |-> Temp(d)]
            ELSE IF d.output_len = ESPSOL_SEED_SIZE
            THEN With(d, espsol_keypair_from_seed(decoded[1], k))
            ELSE IF d.output_len = ESPSOL_PRIVKEY_SIZE
            THEN With(d, espsol_keypair_from_private_key(decoded, k))
            ELSE [keypair |-> k, err |-> ESP_ERR_ESPSOL_INVALID_BASE58,
                  residue |-> Temp(d)]
    IN Decoded(espsol_base58_decode(base58_key, ESPSOL_PRIVKEY_SIZE))

\* Size of salt[] in espsol_mnemonic_to_seed, and the length of its prefix
\* "mnemonic".
SaltSize == 128
SaltPrefixLen == 8

\* A mnemonic is [valid, words]: whether espsol_mnemonic_validate accepts it
\* (the others have a wrong number of words), and an integer standing for its
\* words. PBKDF2 of a mnemonic: the first 32
\* bytes of the 64-byte BIP39 seed.
Pbkdf2Seed(mnemonic) == NumKeys + 1 - mnemonic.words

espsol_mnemonic_validate(mnemonic) ==
    IF mnemonic.valid THEN ESP_OK ELSE ESP_ERR_ESPSOL_INVALID_MNEMONIC

\* The temporaries of espsol_mnemonic_validate that hold the entropy recovered
\* from the words when it returns: none when the word count is rejected, else
\* data[] and entropy[], which are not overwritten.
MnemonicTemporaries(mnemonic) ==
    IF mnemonic.valid THEN {"data", "entropy"} ELSE {}

\* espsol_mnemonic_to_seed; salt[] is zeroed after the derivation.
espsol_mnemonic_to_seed(mnemonic, passphrase_len) ==
    IF espsol_mnemonic_validate(mnemonic) # ESP_OK
    THEN [err |-> espsol_mnemonic_validate(mnemonic), seed |-> 0,
          residue |-> MnemonicTemporaries(mnemonic)]
    ELSE IF SaltPrefixLen + passphrase_len > SaltSize
    THEN [err |-> ESP_ERR_ESPSOL_BUFFER_TOO_SMALL, seed |-> 0,
          residue |-> MnemonicTemporaries(mnemonic)]
    ELSE [err |-> ESP_OK, seed |-> Pbkdf2Seed(mnemonic),
          residue |-> MnemonicTemporaries(mnemonic)]

\* espsol_keypair_from_mnemonic; bip39_seed[] is zeroed after the derivation.
espsol_keypair_from_mnemonic(mnemonic, passphrase_len, k) ==
    LET With(r, c) == [c EXCEPT !.residue = @ \cup r.residue]
        Seeded(r) ==
            IF r.err # ESP_OK
            THEN [keypair |-> k, err |-> r.err, residue |-> r.residue]
            ELSE With(r, espsol_keypair_from_seed(r.seed, k))
    IN Seeded(espsol_mnemonic_to_seed(mnemonic, passphrase_len))

espsol_sign_string(k, mallocs, old) == espsol_sign(k, mallocs, old)

\* espsol_verify_keypair of a signature over the message being verified.
espsol_verify_keypair(signature, k) ==
    IF ~k.initialized THEN ESP_ERR_ESPSOL_KEYPAIR_NOT_INIT
    ELSE IF signature.complete /\ signature.signer = k.public_key THEN ESP_OK
    ELSE ESP_ERR_ESPSOL_SIGNATURE_INVALID

espsol_pubkey_to_address(digits, len) ==
    IF len < ESPSOL_ADDRESS_MAX_LEN
    THEN [err |-> ESP_ERR_ESPSOL_BUFFER_TOO_SMALL, hi |-> 0]
    ELSE espsol_base58_encode(ESPSOL_PUBKEY_SIZE, digits, len)

espsol_keypair_get_address(k, digits, address_len) ==
    IF ~k.initialized THEN [err |-> ESP_ERR_ESPSOL_KEYPAIR_NOT_INIT, hi |-> 0]
    ELSE espsol_pubkey_to_address(digits, address_len)

espsol_keypair_to_base58(k, digits, output_len) ==
    IF ~k.initialized THEN [err |-> ESP_ERR_ESPSOL_KEYPAIR_NOT_INIT, hi |-> 0]
    ELSE espsol_base58_encode(ESPSOL_PRIVKEY_SIZE, digits, output_len)

(* ------------------------------------------------------------------ *)
(* Mnemonic phrases                                                   *)
(* ------------------------------------------------------------------ *)
\* A phrase is a sequence of items: " " a space character, "t" a whitespace
\* character other than the space (tab, newline), "w" the letters of a word
\* of the dictionary, "u" the letters of a word that is not in it, "L" a run
\* of 16 letters or more. Adjacent items other than " " form one token.
IsSpace(c) == c = " "

\* Index of the first item at or after i that is not a space (Len + 1: none).
RECURSIVE SkipSpaces(_, _)
SkipSpaces(chars, i) ==
    IF i <= Len(chars) /\ IsSpace(chars[i]) THEN SkipSpaces(chars, i + 1) ELSE i

\* A word count that counts a trailing run of spaces as one more word.
RECURSIVE CountSpaceRunsKeepTrailing(_, _, _)
CountSpaceRunsKeepTrailing(chars, i, count) ==
    IF i > Len(chars) THEN count
    ELSE IF IsSpace(chars[i])
    THEN CountSpaceRunsKeepTrailing(chars, SkipSpaces(chars, i), count + 1)
    ELSE CountSpaceRunsKeepTrailing(chars, i + 1, count)

\* The counting loop of espsol_mnemonic_word_count from position i on.
RECURSIVE CountSpaceRuns(_, _, _)
CountSpaceRuns(chars, i, count) ==
    IF i > Len(chars) THEN count
    ELSE IF IsSpace(chars[i])
    THEN CountSpaceRuns(chars, SkipSpaces(chars, i),
                        IF SkipSpaces(chars, i) > Len(chars) THEN count
                        ELSE count + 1)
    ELSE CountSpaceRuns(chars, i + 1, count)

espsol_mnemonic_word_count(chars) ==
    IF Len(chars) = 0 THEN 0
    ELSE IF SkipSpaces(chars, 1) > Len(chars) THEN 0
    ELSE CountSpaceRuns(chars, SkipSpaces(chars, 1), 1)

\* Index after the token that starts at i: the next space or the end.
RECURSIVE TokenEnd(_, _)
TokenEnd(chars, i) ==
    IF i <= Len(chars) /\ ~IsSpace(chars[i]) THEN TokenEnd(chars, i + 1) ELSE i

\* find_word_index of the piece the loop extracts at i: found exactly when
\* the token is the letters of one dictionary word and nothing else.
WordFound(chars, i) == chars[i] = "w" /\ TokenEnd(chars, i) = i + 1

\* The parsing loop of espsol_mnemonic_validate from position i on: the
\* number of words read, or -1 when a word is not in the dictionary.
RECURSIVE ParseWords(_, _, _, _)
ParseWords(chars, i, word_idx, word_count) ==
    IF ~(i <= Len(chars) /\ word_idx < word_count) THEN word_idx
    ELSE IF SkipSpaces(chars, i) > Len(chars) THEN word_idx
    ELSE IF ~WordFound(chars, SkipSpaces(chars, i)) THEN -1
    ELSE ParseWords(chars, SkipSpaces(chars, i) + 1, word_idx + 1, word_count)

\* espsol_mnemonic_validate of a phrase given by its items; checksum: the
\* checksum bits of its words match the hash of the entropy they spell.
espsol_mnemonic_validate_chars(chars, checksum) ==
    LET word_count == espsol_mnemonic_word_count(chars) IN
    IF word_count # ESPSOL_MNEMONIC_12_WORDS /\ word_count # ESPSOL_MNEMONIC_24_WORDS
    THEN ESP_ERR_ESPSOL_INVALID_MNEMONIC
    ELSE IF ParseWords(chars, 1, 0, word_count) # word_count
    THEN ESP_ERR_ESPSOL_INVALID_MNEMONIC
    ELSE IF ~checksum THEN ESP_ERR_ESPSOL_INVALID_MNEMONIC
    ELSE ESP_OK

(* ------------------------------------------------------------------ *)
(* Program derived addresses                                          *)
(* ------------------------------------------------------------------ *)
\* The SHA-256 candidate of a bump is known by its class: "off" it does not
\* decompress to a point of the curve, "on" it is a valid point, "zero" its
\* 32 bytes are zero (y = 0, a point of order 4). An input names the bumps
\* whose candidate is "off", the bump whose candidate is "zero" (-1: none)
\* and the total length of its seeds.
MaxBump == 255
HashInputSize == 512
HashInputReserve == 64

Candidate(input, b) ==
    IF b = input.zero THEN "zero" ELSE IF b \in input.off THEN "off" ELSE "on"

\* Point decompression succeeds.
Decompresses(class) == class # "off"

\* espsol_is_on_curve in the two builds: libsodium's validity test on the
\* device, "not all zeros" on the host.
espsol_is_on_curve(build, class) ==
    IF build = "esp" THEN class = "on" ELSE class # "zero"

\* The bumps at which the search loop of espsol_token_find_pda stops.
PdaHits(input) ==
    {b \in 0..MaxBump : ~espsol_is_on_curve(input.build, Candidate(input, b))}

\* The loop runs from 255 down and returns at the first hit.
espsol_token_find_pda(input) ==
    IF input.seed_len > HashInputSize - HashInputReserve
    THEN [err |-> ESP_ERR_ESPSOL_BUFFER_TOO_SMALL, bump |-> -1]
    ELSE IF PdaHits(input) = {}
    THEN [err |-> ESP_ERR_ESPSOL_CRYPTO_ERROR, bump |-> -1]
    ELSE [err |-> ESP_OK,
          bump |-> CHOOSE b \in PdaHits(input) : \A c \in PdaHits(input) : c <= b]

(* ------------------------------------------------------------------ *)
(* RPC requests with retry                                            *)
(* ------------------------------------------------------------------ *)
\* uint8_t attempt: incrementing wraps at 256.
UINT8_RANGE == 256

\* What execute_rpc_request_internal can return for one HTTP request.
RpcOutcomes ==
    {ESP_OK, ESP_ERR_ESPSOL_NETWORK_ERROR, ESP_ERR_ESPSOL_RATE_LIMITED,
     ESP_ERR_ESPSOL_RPC_FAILED, ESP_ERR_ESPSOL_RPC_PARSE_ERROR}

Retryable(err) ==
    err = ESP_ERR_ESPSOL_NETWORK_ERROR \/ err = ESP_ERR_ESPSOL_RATE_LIMITED

\* No request is running. pc: "idle", "loop" (at the head of the while
\* loop) or "done" (returned); attempt: the uint8_t local; requests: the
\* number of HTTP requests made so far by this call.
RpcIdle ==
    [pc |-> "idle", max_retries |-> 0, attempt |-> 0, requests |-> 0,
     err |-> ESP_FAIL]

\* Entry of execute_rpc_request.
execute_rpc_request(max_retries) ==
    [pc |-> "loop", max_retries |-> max_retries, attempt |-> 0, requests |-> 0,
     err |-> ESP_FAIL]

\* The increment of the uint8_t attempt counter.
NextAttempt(attempt) == (attempt + 1) % UINT8_RANGE

\* One pass of the while loop body with the outcome of its request,
\* followed by the test of the loop condition.
RpcIteration(r, outcome) ==
    IF outcome = ESP_OK \/ ~Retryable(outcome)
    THEN [r EXCEPT !.pc = "done", !.err = outcome, !.requests = @ + 1]
    ELSE [r EXCEPT !.err = outcome, !.requests = @ + 1,
                   !.attempt = NextAttempt(r.attempt),
                   !.pc = IF NextAttempt(r.attempt) <= r.max_retries
                          THEN "loop" ELSE "done"]

(* ------------------------------------------------------------------ *)
(* WebSocket client                                                   *)
(* ------------------------------------------------------------------ *)
Slots == 0..(ESPSOL_WS_MAX_SUBSCRIPTIONS - 1)

\* The client after espsol_ws_init_with_config. alive: the handle is
\* allocated; mutex: "free" or the task that holds it; pc, arg, ret,
\* request_id: where the application task is inside a call and its locals;
\* sent: the requests written to the socket; pending: the subscribe requests
\* the server has not answered; server: the subscriptions the server holds,
\* each with the id of the request that made it and the subscription id the
\* server gave it.
WsClient ==
    [alive |-> TRUE, connected |-> FALSE, mutex |-> "free",
     subscriptions |-> [i \in Slots |-> [id |-> 0, active |-> FALSE]],
     next_request_id |-> 1,
     pc |-> "idle", arg |-> 0, ret |-> ESP_OK, request_id |-> 0,
     sent |-> {}, pending |-> {}, server |-> {}]

\* Slot of the first active entry with this id, -1 when there is none.
find_subscription(subscriptions, id) ==
    LET hits == {i \in Slots : subscriptions[i].active /\ subscriptions[i].id = id}
    IN  IF hits = {} THEN -1 ELSE CHOOSE i \in hits : \A j \in hits : i <= j

\* The first inactive slot takes the id; a full table is left as it is.
add_subscription(subscriptions, id) ==
    LET free == {i \in Slots : ~subscriptions[i].active}
    IN  IF free = {} THEN subscriptions
        ELSE [subscriptions EXCEPT
                 ![CHOOSE i \in free : \A j \in free : i <= j] =
                     [id |-> id, active |-> TRUE]]

remove_subscription(subscriptions, id) ==
    IF find_subscription(subscriptions, id) < 0 THEN subscriptions
    ELSE [subscriptions EXCEPT ![find_subscription(subscriptions, id)].active = FALSE]

\* send_jsonrpc_request: takes the next request id and writes the request;
\* the socket accepts it exactly when the connection is up.
send_jsonrpc_request(c, method, sub) ==
    [client |-> [c EXCEPT !.next_request_id = @ + 1,
                          !.request_id = c.next_request_id,
                          !.sent = IF c.connected
                                   THEN @ \cup {[method |-> method,
                                                 id |-> c.next_request_id,
                                                 sub |-> sub]}
                                   ELSE @,
                          !.pending = IF c.connected /\ method = "accountSubscribe"
                                      THEN @ \cup {c.next_request_id} ELSE @],
     err |-> IF c.connected THEN ESP_OK ELSE ESP_ERR_ESPSOL_NETWORK_ERROR]

\* What process_notification does with a notification for the server's
\* subscription id sub: the event its callback gets, if any.
process_notification(c, sub) ==
    IF find_subscription(c.subscriptions, sub) < 0
    THEN [delivered |-> FALSE, subscription_id |-> 0]
    ELSE [delivered |-> TRUE, subscription_id |-> sub]

\* espsol_ws_cleanup: stops and destroys the socket, deletes the mutex and
\* frees the client; nothing is written to the socket.
espsol_ws_cleanup(c) == [c EXCEPT !.alive = FALSE, !.connected = FALSE,
                                  !.pending = {}, !.server = {}]

(* ------------------------------------------------------------------ *)
(* Configuration and instruction building                             *)
(* ------------------------------------------------------------------ *)
\* calloc'd / memset-to-zero transaction.
ZeroTransaction ==
    [fee_payer |-> 0, has_fee_payer |-> FALSE,
     blockhash |-> 0, has_blockhash |-> FALSE,
     instructions |-> <<>>,
     accounts |-> <<>>,
     signatures |-> [i \in SignerSlots |-> NoSignature],
     signer_pubkeys |-> [i \in SignerSlots |-> 0],
     signer_count |-> 0, required_signers |-> 0,
     is_signed |-> FALSE, accounts_compiled |-> FALSE]

espsol_tx_reset(t) == [tx |-> ZeroTransaction, err |-> ESP_OK]

espsol_tx_set_fee_payer(t, pubkey) ==
    [tx |-> [t EXCEPT !.fee_payer = pubkey, !.has_fee_payer = TRUE,
                      !.accounts_compiled = FALSE, !.is_signed = FALSE],
     err |-> ESP_OK]

espsol_tx_set_recent_blockhash(t, blockhash) ==
    [tx |-> [t EXCEPT !.blockhash = blockhash, !.has_blockhash = TRUE,
                      !.is_signed = FALSE],
     err |-> ESP_OK]

\* Storing an instruction without marking the account table stale.
StoreInstructionKeepCompiled(t, ix) ==
    [tx |-> [t EXCEPT !.instructions = Append(t.instructions, ix),
                      !.is_signed = FALSE],
     err |-> ESP_OK]

\* Storing an instruction without invalidating the signatures.
StoreInstructionKeepSigned(t, ix) ==
    [tx |-> [t EXCEPT !.instructions = Append(t.instructions, ix),
                      !.accounts_compiled = FALSE],
     err |-> ESP_OK]

\* The tail shared by every add-instruction operation: store ix in the next slot.
StoreInstruction(t, ix) ==
    [tx |-> [t EXCEPT !.instructions = Append(t.instructions, ix),
                      !.accounts_compiled = FALSE, !.is_signed = FALSE],
     err |-> ESP_OK]

Instruction(program_id, accounts, data_len) ==
    [program_id |-> program_id, accounts |-> accounts, data_len |-> data_len]

\* espsol_tx_add_transfer with a capacity check that lets one more in.
espsol_tx_add_transfer_one_more(t, from, to) ==
    IF Len(t.instructions) > ESPSOL_MAX_INSTRUCTIONS
    THEN [tx |-> t, err |-> ESP_ERR_ESPSOL_MAX_INSTRUCTIONS]
    ELSE StoreInstruction(t,
            Instruction(ESPSOL_SYSTEM_PROGRAM_ID,
                        <<Meta(from, TRUE, TRUE), Meta(to, FALSE, TRUE)>>, 12))

espsol_tx_add_transfer(t, from, to) ==
    IF Len(t.instructions) >= ESPSOL_MAX_INSTRUCTIONS
    THEN [tx |-> t, err |-> ESP_ERR_ESPSOL_MAX_INSTRUCTIONS]
    ELSE StoreInstruction(t,
            Instruction(ESPSOL_SYSTEM_PROGRAM_ID,
                        <<Meta(from, TRUE, TRUE), Meta(to, FALSE, TRUE)>>, 12))

espsol_tx_add_create_account(t, from, new_account, owner) ==
    IF Len(t.instructions) >= ESPSOL_MAX_INSTRUCTIONS
    THEN [tx |-> t, err |-> ESP_ERR_ESPSOL_MAX_INSTRUCTIONS]
    ELSE StoreInstruction(t,
            Instruction(ESPSOL_SYSTEM_PROGRAM_ID,
                        <<Meta(from, TRUE, TRUE), Meta(new_account, TRUE, TRUE)>>,
                        4 + 8 + 8 + 32))

espsol_tx_add_instruction(t, program_id, accounts, data_len) ==
    IF Len(t.instructions) >= ESPSOL_MAX_INSTRUCTIONS
    THEN [tx |-> t, err |-> ESP_ERR_ESPSOL_MAX_INSTRUCTIONS]
    ELSE IF Len(accounts) > ESPSOL_MAX_ACCOUNTS
    THEN [tx |-> t, err |-> ESP_ERR_ESPSOL_MAX_ACCOUNTS]
    ELSE IF data_len > ESPSOL_MAX_INSTRUCTION_DATA
    THEN [tx |-> t, err |-> ESP_ERR_ESPSOL_BUFFER_TOO_SMALL]
    ELSE StoreInstruction(t, Instruction(program_id, accounts, data_len))

espsol_tx_add_memo(t, memo_len) ==
    IF memo_len > ESPSOL_MAX_INSTRUCTION_DATA
    THEN [tx |-> t, err |-> ESP_ERR_ESPSOL_BUFFER_TOO_SMALL]
    ELSE espsol_tx_add_instruction(t, ESPSOL_MEMO_PROGRAM_ID, <<>>, memo_len)

espsol_tx_is_signed(t) == t.is_signed

espsol_tx_get_signature_count(t) == t.signer_count

(* ------------------------------------------------------------------ *)
(* The caller: one transaction handle and the calls made on it        *)
(* ------------------------------------------------------------------ *)
VARIABLES
    tx,        \* struct espsol_transaction
    last,      \* the most recent API call: operation, arguments, results
    resigned,  \* slots written by a successful espsol_tx_sign since the last
               \* successful mutation or reset (history of the calls)
    wallet,    \* one espsol_keypair_t of the caller
    rpc,       \* one call of execute_rpc_request: its locals and its attempts
    ws         \* one struct espsol_ws_client, the application task using it
               \* and the server at the other end of its connection

vars == <<tx, last, resigned, wallet, rpc, ws>>

\* The network clients, which the transaction and key operations leave alone.
net == <<rpc, ws>>

\* The first wallet key.
K1 == CHOOSE k \in UserKeys : \A j \in UserKeys : k <= j
\* The last wallet key.
KLast == 10 + NumKeys

\* Keypairs the caller signs with: initialized wallets, and structures with
\* initialized = false (cleared to zero, or filled in without a constructor).
Keypairs ==
    { [public_key |-> k, initialized |-> TRUE] : k \in UserKeys }
        \cup { [public_key |-> k, initialized |-> FALSE] : k \in {0, K1} }

\* n read-only, non-signer accounts with n distinct keys.
Wide(n) == [i \in 1..n |-> Meta(FillerKey(i), FALSE, FALSE)]

\* Arguments the caller passes to espsol_tx_add_instruction: an instruction with
\* a read-only signer and a writable non-signer, and two that the call rejects.
CustomInstructions ==
    { Instruction(ESPSOL_TOKEN_PROGRAM_ID,
                  <<Meta(FillerKey(1), FALSE, FALSE), Meta(KLast, TRUE, FALSE),
                    Meta(FillerKey(2), FALSE, TRUE)>>, 3),
      Instruction(ESPSOL_TOKEN_PROGRAM_ID, Wide(ESPSOL_MAX_ACCOUNTS + 1), 0),
      Instruction(ESPSOL_TOKEN_PROGRAM_ID, <<>>, ESPSOL_MAX_INSTRUCTION_DATA + 1) }

\* One-account instructions with every combination of the two flags.
FlagInstructions ==
    { Instruction(ESPSOL_TOKEN_PROGRAM_ID, <<Meta(KLast, s, w)>>, 0) :
        s \in BOOLEAN, w \in BOOLEAN }

\* An instruction whose 20 accounts and program id need 21 table entries.
WideInstruction == Instruction(ESPSOL_TOKEN_PROGRAM_ID, Wide(ESPSOL_MAX_ACCOUNTS), 0)

\* An instruction that, with its program id, references one key fewer than
\* the account table holds.
RoomyInstruction ==
    Instruction(ESPSOL_TOKEN_PROGRAM_ID, Wide(ESPSOL_MAX_ACCOUNTS - 2), 0)

MemoLengths == {5, ESPSOL_MAX_INSTRUCTION_DATA + 1}
BufferLengths == {0, 64, ESPSOL_MAX_TX_SIZE}
OutputLengths == {0, 1, 2048}

Call(op, err) ==
    [op |-> op, err |-> err, key |-> -1, initialized |-> FALSE,
     len |-> -1, out_len |-> -1, hi |-> 0, repeat |-> FALSE, residue |-> {},
     input |-> HexText(0, FALSE)]

Init ==
    /\ tx = ZeroTransaction
    /\ last = Call("create", ESP_OK)
    /\ resigned = {}
    /\ wallet = espsol_keypair_init(ZeroKeypair).keypair
    /\ rpc = RpcIdle
    /\ ws = WsClient

\* A mutation that succeeded makes every earlier signature a stale one.
Mutated(r) == resigned' = IF r.err = ESP_OK THEN {} ELSE resigned

Reset ==
    LET r == espsol_tx_reset(tx) IN
    /\ tx' = r.tx
    /\ last' = Call("reset", r.err)
    /\ resigned' = {}
    /\ UNCHANGED <<wallet, net>>

SetFeePayer ==
    \E pubkey \in UserKeys :
        LET r == espsol_tx_set_fee_payer(tx, pubkey) IN
        /\ tx' = r.tx
        /\ last' = Call("set_fee_payer", r.err)
        /\ Mutated(r)
        /\ UNCHANGED <<wallet, net>>

SetRecentBlockhash ==
    \E blockhash \in Blockhashes :
        LET r == espsol_tx_set_recent_blockhash(tx, blockhash) IN
        /\ tx' = r.tx
        /\ last' = Call("set_recent_blockhash", r.err)
        /\ Mutated(r)
        /\ UNCHANGED <<wallet, net>>

AddTransfer ==
    /\ Len(tx.instructions) < MaxIx
    /\ \E from \in UserKeys :
        LET r == espsol_tx_add_transfer(tx, from, KLast) IN
        /\ tx' = r.tx
        /\ last' = Call("add_transfer", r.err)
        /\ Mutated(r)
        /\ UNCHANGED <<wallet, net>>

AddCreateAccount ==
    /\ Len(tx.instructions) < MaxIx
    /\ \E from \in UserKeys :
        LET r == espsol_tx_add_create_account(tx, from, KLast,
                                              ESPSOL_SYSTEM_PROGRAM_ID) IN
        /\ tx' = r.tx
        /\ last' = Call("add_create_account", r.err)
        /\ Mutated(r)
        /\ UNCHANGED <<wallet, net>>

AddInstructionFrom(inputs) ==
    \E ix \in inputs :
        LET r == espsol_tx_add_instruction(tx, ix.program_id, ix.accounts,
                                           ix.data_len) IN
        /\ tx' = r.tx
        /\ last' = Call("add_instruction", r.err)
        /\ Mutated(r)
        /\ UNCHANGED <<wallet, net>>

AddInstruction ==
    /\ Len(tx.instructions) < MaxIx
    /\ AddInstructionFrom(CustomInstructions)

AddFlagInstruction ==
    /\ Len(tx.instructions) < MaxIx
    /\ AddInstructionFrom(FlagInstructions)

AddWideInstruction ==
    /\ Len(tx.instructions) < MaxWide
    /\ AddInstructionFrom({WideInstruction})

AddRoomyInstruction ==
    /\ Len(tx.instructions) < MaxIx
    /\ AddInstructionFrom({RoomyInstruction})

AddMemoOf(lengths) ==
    \E memo_len \in lengths :
        LET r == espsol_tx_add_memo(tx, memo_len) IN
        /\ tx' = r.tx
        /\ last' = [Call("add_memo", r.err) EXCEPT !.len = memo_len]
        /\ Mutated(r)
        /\ UNCHANGED <<wallet, net>>

AddMemo ==
    /\ Len(tx.instructions) < MaxIx
    /\ AddMemoOf(MemoLengths)

AddLongMemo ==
    /\ Len(tx.instructions) < MaxLong
    /\ AddMemoOf({ESPSOL_MAX_INSTRUCTION_DATA})

\* A caller that fills the instruction list with memos, and near its
\* capacity (and beyond) tries every add operation.
NearlyFull == Len(tx.instructions) >= ESPSOL_MAX_INSTRUCTIONS - MaxTail

FillMemo == AddMemoOf(MemoLengths)

LateTransfer ==
    /\ NearlyFull
    /\ \E from \in UserKeys :
        LET r == espsol_tx_add_transfer(tx, from, KLast) IN
        /\ tx' = r.tx
        /\ last' = Call("add_transfer", r.err)
        /\ Mutated(r)
        /\ UNCHANGED <<wallet, net>>

LateCreateAccount ==
    /\ NearlyFull
    /\ \E from \in UserKeys :
        LET r == espsol_tx_add_create_account(tx, from, KLast,
                                              ESPSOL_SYSTEM_PROGRAM_ID) IN
        /\ tx' = r.tx
        /\ last' = Call("add_create_account", r.err)
        /\ Mutated(r)
        /\ UNCHANGED <<wallet, net>>

LateInstruction ==
    /\ NearlyFull
    /\ AddInstructionFrom(CustomInstructions)

\* The call about to be made repeats the call just made: espsol_tx_sign
\* with the same keypair.
Resign(keypair) ==
    /\ last.op = "sign"
    /\ last.key = keypair.public_key
    /\ last.initialized = keypair.initialized

\* espsol_tx_sign when mallocs of the signer's heap allocations succeed.
SignWith(outcomes) ==
    \E keypair \in Keypairs, mallocs \in outcomes :
        LET r == espsol_tx_sign(tx, keypair, mallocs) IN
        /\ tx' = r.tx
        /\ last' = [Call("sign", r.err) EXCEPT !.key = keypair.public_key,
                                               !.initialized = keypair.initialized,
                                               !.repeat = Resign(keypair),
                                               !.residue = r.residue]
        /\ resigned' = IF r.err = ESP_OK THEN resigned \cup {r.slot} ELSE resigned
        /\ UNCHANGED <<wallet, net>>

\* The heap has room for the signer's buffers.
Sign == SignWith({2})

Serialize ==
    \E buffer_len \in BufferLengths :
        LET r == espsol_tx_serialize(tx, buffer_len) IN
        /\ tx' = r.tx
        /\ last' = [Call("serialize", r.err) EXCEPT !.len = buffer_len,
                                                    !.out_len = r.out_len,
                                                    !.hi = r.hi]
        /\ UNCHANGED resigned
        /\ UNCHANGED <<wallet, net>>

\* espsol_tx_serialize into the shortest buffers, into buffers that end
\* just after the first signature, and into one that is large enough for any
\* transaction.
ShortBuffers ==
    (0..MaxBuffer) \cup {ESPSOL_SIGNATURE_SIZE + b : b \in 0..MaxBuffer}
        \cup {ESPSOL_MAX_TX_SIZE}

SerializeInto ==
    \E buffer_len \in ShortBuffers :
        /\ tx' = espsol_tx_serialize(tx, buffer_len).tx
        /\ last' = [Call("serialize", espsol_tx_serialize(tx, buffer_len).err)
                        EXCEPT !.len = buffer_len,
                               !.out_len = espsol_tx_serialize(tx, buffer_len).out_len,
                               !.hi = espsol_tx_serialize(tx, buffer_len).hi]
        /\ UNCHANGED resigned
        /\ UNCHANGED <<wallet, net>>

\* An instruction whose n accounts are writable signers with distinct keys.
Crowd(n) == [i \in 1..n |-> Meta(FillerKey(i), TRUE, TRUE)]

\* Instructions with as many signers as there are signature slots, and with
\* one more.
CrowdInstructions ==
    { Instruction(ESPSOL_TOKEN_PROGRAM_ID, Crowd(n), 0) :
          n \in {ESPSOL_MAX_SIGNERS, ESPSOL_MAX_SIGNERS + 1} }

AddCrowdInstruction ==
    /\ Len(tx.instructions) < MaxWide
    /\ AddInstructionFrom(CrowdInstructions)

\* The keypairs of those signers and of the first wallet key.
CrowdKeypairs ==
    { [public_key |-> k, initialized |-> TRUE] :
          k \in {K1} \cup {FillerKey(i) : i \in 1..(ESPSOL_MAX_SIGNERS + 1)} }

SignCrowd ==
    \E keypair \in CrowdKeypairs :
        /\ tx' = espsol_tx_sign(tx, keypair, 2).tx
        /\ last' = [Call("sign", espsol_tx_sign(tx, keypair, 2).err) EXCEPT
                        !.key = keypair.public_key,
                        !.initialized = keypair.initialized,
                        !.repeat = Resign(keypair),
                        !.residue = espsol_tx_sign(tx, keypair, 2).residue]
        /\ resigned' = IF espsol_tx_sign(tx, keypair, 2).err = ESP_OK
                       THEN resigned \cup {espsol_tx_sign(tx, keypair, 2).slot}
                       ELSE resigned
        /\ UNCHANGED <<wallet, net>>

ToBase64 ==
    \E output_len \in OutputLengths :
        LET r == espsol_tx_to_base64(tx, output_len) IN
        /\ tx' = r.tx
        /\ last' = [Call("to_base64", r.err) EXCEPT !.len = output_len,
                                                    !.hi = r.hi]
        /\ UNCHANGED resigned
        /\ UNCHANGED <<wallet, net>>

ToBase58 ==
    \E output_len \in OutputLengths :
        LET n == espsol_tx_serialize(tx, ESPSOL_MAX_TX_SIZE).out_len IN
        \E digits \in (IF n > 0 THEN Base58Digits(n) ELSE {0}) :
            LET r == espsol_tx_to_base58(tx, digits, output_len) IN
            /\ tx' = r.tx
            /\ last' = [Call("to_base58", r.err) EXCEPT !.len = output_len,
                                                        !.hi = r.hi]
            /\ UNCHANGED resigned
            /\ UNCHANGED <<wallet, net>>

GetAccountCount ==
    LET c == compile_accounts(tx) IN
    /\ tx' = c.tx
    /\ last' = [Call("get_account_count", c.err) EXCEPT
                    !.out_len = IF c.err = ESP_OK THEN Len(c.tx.accounts) ELSE -1]
    /\ UNCHANGED resigned
    /\ UNCHANGED <<wallet, net>>

\* 64-byte private keys the caller imports: a seed followed by 32 bytes that
\* are, or are not, the public key of that seed.
PrivateKeys == { <<seed, public>> : seed \in Seeds, public \in UserKeys }

\* Base-58 key texts the caller imports, with the bytes they decode to: a
\* seed, a private key, 16 bytes, a text with a character outside the
\* alphabet, and 65 bytes.
KeyTexts ==
    { [text |-> Base58Text(0, 44, FALSE, 32), decoded |-> <<seed, 0>>] :
        seed \in Seeds }
        \cup { [text |-> Base58Text(0, 88, FALSE, 64), decoded |-> k] :
                 k \in PrivateKeys }
        \cup { [text |-> Base58Text(0, 22, FALSE, 16), decoded |-> <<K1, 0>>],
               [text |-> Base58Text(0, 44, TRUE, 32), decoded |-> <<0, 0>>],
               [text |-> Base58Text(0, 89, FALSE, 65), decoded |-> <<0, 0>>] }

Mnemonics == [valid : BOOLEAN, words : Seeds]
PassphraseLengths == {0, SaltSize - SaltPrefixLen + 1}

\* The record of a call that takes the caller's keypair, with the temporaries
\* it left holding secret bytes.
KeypairCall(op, err, k, residue) ==
    [Call(op, err) EXCEPT !.key = k.public_key, !.initialized = k.initialized,
                          !.residue = residue]

KeypairInit ==
    LET r == espsol_keypair_init(wallet) IN
    /\ wallet' = r.keypair
    /\ last' = KeypairCall("keypair_init", r.err, r.keypair, r.residue)
    /\ UNCHANGED <<tx, resigned, net>>

KeypairClear ==
    LET r == espsol_keypair_clear(wallet) IN
    /\ wallet' = r.keypair
    /\ last' = KeypairCall("keypair_clear", r.err, r.keypair, r.residue)
    /\ UNCHANGED <<tx, resigned, net>>

KeypairGenerate ==
    \E random_err \in {ESP_OK, ESP_ERR_ESPSOL_CRYPTO_ERROR}, seed \in Seeds :
        LET r == espsol_keypair_generate(wallet, random_err, seed) IN
        /\ wallet' = r.keypair
        /\ last' = KeypairCall("keypair_generate", r.err, r.keypair, r.residue)
        /\ UNCHANGED <<tx, resigned, net>>

KeypairFromSeed ==
    \E seed \in Seeds :
        LET r == espsol_keypair_from_seed(seed, wallet) IN
        /\ wallet' = r.keypair
        /\ last' = KeypairCall("keypair_from_seed", r.err, r.keypair, r.residue)
        /\ UNCHANGED <<tx, resigned, net>>

KeypairFromPrivateKey ==
    \E private_key \in PrivateKeys :
        LET r == espsol_keypair_from_private_key(private_key, wallet) IN
        /\ wallet' = r.keypair
        /\ last' = KeypairCall("keypair_from_private_key", r.err, r.keypair, r.residue)
        /\ UNCHANGED <<tx, resigned, net>>

KeypairFromBase58 ==
    \E key \in KeyTexts :
        LET r == espsol_keypair_from_base58(key.text, key.decoded, wallet) IN
        /\ wallet' = r.keypair
        /\ last' = KeypairCall("keypair_from_base58", r.err, r.keypair, r.residue)
        /\ UNCHANGED <<tx, resigned, net>>

KeypairFromMnemonic ==
    \E mnemonic \in Mnemonics, passphrase_len \in PassphraseLengths :
        LET r == espsol_keypair_from_mnemonic(mnemonic, passphrase_len, wallet) IN
        /\ wallet' = r.keypair
        /\ last' = KeypairCall("keypair_from_mnemonic", r.err, r.keypair, r.residue)
        /\ UNCHANGED <<tx, resigned, net>>

SignMessage ==
    /\ last' = KeypairCall("espsol_sign",
                           espsol_sign(wallet, 2, NoSignature).err, wallet,
                           espsol_sign(wallet, 2, NoSignature).residue)
    /\ UNCHANGED <<tx, resigned, wallet, net>>

SignString ==
    /\ last' = KeypairCall("espsol_sign_string",
                           espsol_sign_string(wallet, 2, NoSignature).err, wallet,
                           espsol_sign_string(wallet, 2, NoSignature).residue)
    /\ UNCHANGED <<tx, resigned, wallet, net>>

VerifyKeypair ==
    \E signature \in {NoSignature} \cup { Signature(k) : k \in UserKeys } :
        /\ last' = KeypairCall("espsol_verify_keypair",
                               espsol_verify_keypair(signature, wallet), wallet, {})
        /\ UNCHANGED <<tx, resigned, wallet, net>>

GetAddress ==
    \E address_len \in {1, ESPSOL_ADDRESS_MAX_LEN},
       digits \in Base58Digits(ESPSOL_PUBKEY_SIZE) :
        /\ last' = KeypairCall("keypair_get_address",
                               espsol_keypair_get_address(wallet, digits,
                                                          address_len).err,
                               wallet, {})
        /\ UNCHANGED <<tx, resigned, wallet, net>>

KeypairToBase58 ==
    \E output_len \in {1, 2 * ESPSOL_PRIVKEY_SIZE},
       digits \in Base58Digits(ESPSOL_PRIVKEY_SIZE) :
        /\ last' = KeypairCall("keypair_to_base58",
                               espsol_keypair_to_base58(wallet, digits,
                                                        output_len).err,
                               wallet, {})
        /\ UNCHANGED <<tx, resigned, wallet, net>>

\* espsol_tx_sign with the caller's keypair.
SignWithWallet ==
    LET r == espsol_tx_sign(tx, wallet, 2) IN
    /\ tx' = r.tx
    /\ last' = [KeypairCall("sign", r.err, wallet, r.residue) EXCEPT
                    !.repeat = Resign(wallet)]
    /\ resigned' = IF r.err = ESP_OK THEN resigned \cup {r.slot} ELSE resigned
    /\ UNCHANGED <<wallet, net>>

\* Texts the caller decodes. Base-58: empty, short, a seed, a private key and
\* a text of 348 characters, each with or without a leading '1' and with or
\* without a character outside the alphabet.
Base58Texts ==
    { t \in [ones : {0, 1}, digits : {0, 1, 44, 88, 348}, invalid : BOOLEAN,
             bytes : 0..348] :
        /\ t.digits = 0 => (t.bytes = 0 /\ ~t.invalid)
        /\ t.digits > 0 => t.bytes \in Base58Bytes(t.digits) }

Base64Texts ==
    { t \in [len : {0, 4, 6, 8}, padding : 0..2, invalid : BOOLEAN] :
        t.len = 0 => (t.padding = 0 /\ ~t.invalid) }

HexTexts ==
    { t \in [len : {0, 3, 8, 64}, invalid : BOOLEAN] : t.len = 0 => ~t.invalid }

\* Sizes of the caller's output buffer, as passed in *output_len.
Capacities == {0, 2, ESPSOL_PUBKEY_SIZE, ESPSOL_SIGNATURE_SIZE}

\* The record of a decoder call: capacity passed, *output_len on return.
DecodeCall(op, input, capacity, r, retry) ==
    [Call(op, r.err) EXCEPT !.input = input, !.len = capacity,
                            !.out_len = r.output_len, !.repeat = retry]

\* The previous call was this decoder and found the buffer too small.
TooSmall(op) == last.op = op /\ last.err = ESP_ERR_ESPSOL_BUFFER_TOO_SMALL

DecodeBase58 ==
    \E input \in Base58Texts, capacity \in Capacities :
        /\ last' = DecodeCall("base58_decode", input, capacity,
                              espsol_base58_decode(input, capacity), FALSE)
        /\ UNCHANGED <<tx, resigned, wallet, net>>

DecodeBase64 ==
    \E input \in Base64Texts, capacity \in Capacities :
        /\ last' = DecodeCall("base64_decode", input, capacity,
                              espsol_base64_decode(input, capacity), FALSE)
        /\ UNCHANGED <<tx, resigned, wallet, net>>

DecodeHex ==
    \E input \in HexTexts, capacity \in Capacities :
        /\ last' = DecodeCall("hex_decode", input, capacity,
                              espsol_hex_decode(input, capacity), FALSE)
        /\ UNCHANGED <<tx, resigned, wallet, net>>

\* The caller retries the same text with a buffer of the size *output_len
\* holds after the call that failed.
RetryBase58 ==
    /\ TooSmall("base58_decode")
    /\ last' = DecodeCall("base58_decode", last.input, last.out_len,
                          espsol_base58_decode(last.input, last.out_len), TRUE)
    /\ UNCHANGED <<tx, resigned, wallet, net>>

RetryBase64 ==
    /\ TooSmall("base64_decode")
    /\ last' = DecodeCall("base64_decode", last.input, last.out_len,
                          espsol_base64_decode(last.input, last.out_len), TRUE)
    /\ UNCHANGED <<tx, resigned, wallet, net>>

RetryHex ==
    /\ TooSmall("hex_decode")
    /\ last' = DecodeCall("hex_decode", last.input, last.out_len,
                          espsol_hex_decode(last.input, last.out_len), TRUE)
    /\ UNCHANGED <<tx, resigned, wallet, net>>

\* The record of an encoding followed, if it succeeded, by the decoding of
\* its text into a buffer of the original length: the first error met, the
\* original length and the decoded length.
RoundTripCall(op, data_len, e, d) ==
    [Call(op, IF e.err # ESP_OK THEN e.err ELSE d.err) EXCEPT
        !.len = data_len,
        !.out_len = IF e.err # ESP_OK THEN -1 ELSE d.output_len]

\* Byte strings with no, one or only leading zero bytes.
RoundTripBase58 ==
    \E data_len \in 0..MaxData :
        \E zeros \in {0, 1, data_len} \cap 0..data_len :
            \E digits \in (IF data_len = zeros THEN {0}
                           ELSE Base58Digits(data_len - zeros)) :
                /\ last' = RoundTripCall("base58_round_trip", data_len,
                               espsol_base58_encode(data_len, zeros + digits,
                                                    2 * data_len + 2),
                               espsol_base58_decode(
                                   Base58Encoded(zeros, data_len - zeros, digits),
                                   data_len))
                /\ UNCHANGED <<tx, resigned, wallet, net>>

RoundTripBase64 ==
    \E data_len \in 0..MaxData :
        /\ last' = RoundTripCall("base64_round_trip", data_len,
                       espsol_base64_encode(data_len,
                                            espsol_base64_encoded_len(data_len)),
                       espsol_base64_decode(Base64Encoded(data_len), data_len))
        /\ UNCHANGED <<tx, resigned, wallet, net>>

RoundTripHex ==
    \E data_len \in 0..MaxData :
        /\ last' = RoundTripCall("hex_round_trip", data_len,
                       espsol_hex_encode(data_len, data_len * 2 + 1),
                       espsol_hex_decode(HexEncoded(data_len), data_len))
        /\ UNCHANGED <<tx, resigned, wallet, net>>

\* All texts of up to MaxText characters, by the classes of their characters.
Base64CharTexts == UNION { [1..n -> Base64Chars] : n \in 0..MaxText }

\* espsol_base64_decode into a buffer that holds three bytes for every four
\* characters.
DecodeBase64Chars ==
    \E chars \in Base64CharTexts :
        LET r == espsol_base64_decode_chars(chars, Len(chars)) IN
        /\ last' = [Call("base64_decode_chars", r.err) EXCEPT
                        !.input = chars, !.len = Len(chars),
                        !.out_len = r.output_len]
        /\ UNCHANGED <<tx, resigned, wallet, net>>

\* Phrases the caller validates: n words separated by single spaces, with at
\* most one word replaced (bad: its position, by: what replaces it), at most
\* one separator replaced (at: its position, sep: what replaces it), and
\* possibly a leading and a trailing space.
RECURSIVE PhraseFrom(_, _)
PhraseFrom(f, i) ==
    IF i > f.n THEN (IF f.trail THEN <<" ">> ELSE <<>>)
    ELSE <<IF i = f.bad THEN f.by ELSE "w">>
            \o (IF i = f.n THEN <<>> ELSE IF i = f.at THEN f.sep ELSE <<" ">>)
            \o PhraseFrom(f, i + 1)

Phrase(f) == (IF f.lead THEN <<" ">> ELSE <<>>) \o PhraseFrom(f, 1)

PhraseForms ==
    [n : {11, 12, 13, 24}, bad : {0, 1}, by : {"u", "L"},
     at : {0, 11}, sep : {<<"t">>, <<" ", " ">>},
     lead : BOOLEAN, trail : BOOLEAN]

MnemonicValidate ==
    \E f \in PhraseForms, checksum \in BOOLEAN :
        /\ last' = [Call("mnemonic_validate",
                         espsol_mnemonic_validate_chars(Phrase(f), checksum))
                        EXCEPT !.input = [chars |-> Phrase(f), checksum |-> checksum]]
        /\ UNCHANGED <<tx, resigned, wallet, net>>

\* Searches the caller starts: which candidates are off the curve, which
\* one is all zeros, how long the seeds are, and the build that runs.
PdaInputs ==
    [build : {"esp", "host"}, off : SUBSET {0, MaxBump - 1, MaxBump},
     zero : {-1, 0, MaxBump}, seed_len : {0, HashInputSize - HashInputReserve,
                                          HashInputSize - HashInputReserve + 1}]

FindPda ==
    \E input \in PdaInputs :
        /\ last' = [Call("find_pda", espsol_token_find_pda(input).err)
                        EXCEPT !.input = input,
                               !.out_len = espsol_token_find_pda(input).bump]
        /\ UNCHANGED <<tx, resigned, wallet, net>>

\* Retry limits a client is configured with (uint8_t max_retries).
RetryLimits == {0, 1, UINT8_RANGE - 2, UINT8_RANGE - 1}

RpcRequest ==
    \E max_retries \in RetryLimits :
        /\ rpc.pc # "loop"
        /\ rpc' = execute_rpc_request(max_retries)
        /\ UNCHANGED <<tx, last, resigned, wallet, ws>>

RpcAttempt ==
    \E outcome \in RpcOutcomes :
        /\ rpc.pc = "loop"
        /\ rpc.requests < MaxAttempts
        /\ rpc' = RpcIteration(rpc, outcome)
        /\ UNCHANGED <<tx, last, resigned, wallet, ws>>

\* Subscription ids the server hands out.
ServerSubIds == {1, 2, 7}

\* An access to the connected flag, the request-id counter or the
\* subscription table: the task, the fields, whether the task holds the
\* mutex, and whether the other task is inside a call at that moment.
Access(task, fields) ==
    [task |-> task, fields |-> fields, locked |-> ws.mutex = task,
     concurrent |-> task = "event" /\ ws.pc # "idle",
     request |-> 0, sub |-> 0, delivered |-> FALSE, subscription_id |-> 0]

WsCall(op, err, access) == [Call(op, err) EXCEPT !.input = access]

WsInit ==
    /\ ~ws.alive
    /\ ws' = WsClient
    /\ last' = WsCall("ws_init", ESP_OK, Access("app", {}))
    /\ UNCHANGED <<tx, resigned, wallet, rpc>>

WsCleanup ==
    /\ ws.alive /\ ws.pc = "idle"
    /\ ws' = espsol_ws_cleanup(ws)
    /\ last' = WsCall("ws_cleanup", ESP_OK, Access("app", {}))
    /\ UNCHANGED <<tx, resigned, wallet, rpc>>

IsConnected ==
    /\ ws.alive /\ ws.pc = "idle"
    /\ last' = [WsCall("ws_is_connected", ESP_OK, Access("app", {"connected"}))
                    EXCEPT !.initialized = ws.connected]
    /\ UNCHANGED <<tx, resigned, wallet, rpc, ws>>

\* espsol_ws_account_subscribe up to xSemaphoreTake.
SubscribeTake ==
    /\ ws.alive /\ ws.pc = "idle" /\ ws.mutex = "free"
    /\ ws.next_request_id <= MaxRequests
    /\ ws' = [ws EXCEPT !.pc = "subscribe", !.mutex = "app"]
    /\ last' = WsCall("ws_subscribe_take", ESP_OK, Access("app", {}))
    /\ UNCHANGED <<tx, resigned, wallet, rpc>>

\* ... its send_jsonrpc_request ...
SubscribeSend ==
    /\ ws.pc = "subscribe"
    /\ ws' = [send_jsonrpc_request(ws, "accountSubscribe", 0).client EXCEPT
                 !.pc = "subscribe_sent",
                 !.ret = send_jsonrpc_request(ws, "accountSubscribe", 0).err]
    /\ last' = WsCall("ws_subscribe_send",
                      send_jsonrpc_request(ws, "accountSubscribe", 0).err,
                      Access("app", {"next_request_id"}))
    /\ UNCHANGED <<tx, resigned, wallet, rpc>>

\* ... and the rest: add_subscription, xSemaphoreGive, return.
SubscribeReturn ==
    /\ ws.pc = "subscribe_sent"
    /\ ws' = [ws EXCEPT !.pc = "idle", !.mutex = "free",
                        !.subscriptions =
                            IF ws.ret = ESP_OK
                            THEN add_subscription(@, ws.request_id) ELSE @]
    /\ last' = [WsCall("ws_account_subscribe", ws.ret,
                       Access("app", {"subscriptions"}))
                    EXCEPT !.out_len = ws.request_id]
    /\ UNCHANGED <<tx, resigned, wallet, rpc>>

\* espsol_ws_account_unsubscribe up to xSemaphoreTake.
UnsubscribeTake ==
    \E subscription_id \in 1..MaxRequests :
        /\ ws.alive /\ ws.pc = "idle" /\ ws.mutex = "free"
        /\ ws.next_request_id <= MaxRequests
        /\ ws' = [ws EXCEPT !.pc = "unsubscribe", !.mutex = "app",
                            !.arg = subscription_id]
        /\ last' = WsCall("ws_unsubscribe_take", ESP_OK, Access("app", {}))
        /\ UNCHANGED <<tx, resigned, wallet, rpc>>

\* ... and the rest; the server drops the subscription the request names.
UnsubscribeReturn ==
    /\ ws.pc = "unsubscribe"
    /\ ws' = [send_jsonrpc_request(ws, "accountUnsubscribe", ws.arg).client EXCEPT
                 !.pc = "idle", !.mutex = "free", !.arg = 0,
                 !.subscriptions =
                     IF ws.connected THEN remove_subscription(@, ws.arg) ELSE @,
                 !.server = IF ws.connected
                            THEN {r \in @ : r.sub # ws.arg} ELSE @]
    /\ last' = WsCall("ws_account_unsubscribe",
                      send_jsonrpc_request(ws, "accountUnsubscribe", ws.arg).err,
                      Access("app", {"next_request_id", "subscriptions"}))
    /\ UNCHANGED <<tx, resigned, wallet, rpc>>

\* The event task: websocket_event_handler with WEBSOCKET_EVENT_CONNECTED.
EventConnected ==
    /\ ws.alive /\ ~ws.connected
    /\ ws' = [ws EXCEPT !.connected = TRUE]
    /\ last' = WsCall("ws_event_connected", ESP_OK, Access("event", {"connected"}))
    /\ UNCHANGED <<tx, resigned, wallet, rpc>>

\* WEBSOCKET_EVENT_DISCONNECTED; the server forgets the connection.
EventDisconnected ==
    /\ ws.alive /\ ws.connected
    /\ ws' = [ws EXCEPT !.connected = FALSE, !.pending = {}, !.server = {}]
    /\ last' = WsCall("ws_event_disconnected", ESP_OK,
                      Access("event", {"connected"}))
    /\ UNCHANGED <<tx, resigned, wallet, rpc>>

\* WEBSOCKET_EVENT_DATA with the server's answer to a subscribe request:
\* process_response logs the subscription id and stores nothing.
EventResponse ==
    \E request \in ws.pending :
        \E sub \in ServerSubIds \ {r.sub : r \in ws.server} :
            /\ ws.alive /\ ws.connected
            /\ ws' = [ws EXCEPT !.pending = @ \ {request},
                                !.server = @ \cup {[request |-> request,
                                                    sub |-> sub]}]
            /\ last' = WsCall("ws_response", ESP_OK,
                              [Access("event", {}) EXCEPT !.request = request,
                                                          !.sub = sub])
            /\ UNCHANGED <<tx, resigned, wallet, rpc>>

\* WEBSOCKET_EVENT_DATA with a notification of one of the server's
\* subscriptions.
EventNotification ==
    \E r \in ws.server :
        /\ ws.alive /\ ws.connected
        /\ last' = WsCall("ws_notification", ESP_OK,
                          [Access("event", {"subscriptions"}) EXCEPT
                              !.request = r.request, !.sub = r.sub,
                              !.delivered = process_notification(ws, r.sub).delivered,
                              !.subscription_id =
                                  process_notification(ws, r.sub).subscription_id])
        /\ UNCHANGED <<tx, resigned, wallet, rpc, ws>>

\* Building, signing and serializing ordinary transactions.
Next ==
    \/ Reset
    \/ SetFeePayer
    \/ SetRecentBlockhash
    \/ AddTransfer
    \/ AddCreateAccount
    \/ AddInstruction
    \/ AddMemo
    \/ Sign
    \/ Serialize
    \/ GetAccountCount

Spec == Init /\ [][Next]_vars

\* Signing transfers and account creations, and encoding the result as text.
NextEncode ==
    \/ Reset
    \/ SetFeePayer
    \/ SetRecentBlockhash
    \/ AddTransfer
    \/ AddCreateAccount
    \/ Sign
    \/ Serialize
    \/ ToBase64
    \/ ToBase58

SpecEncode == Init /\ [][NextEncode]_vars

\* Building transactions and compiling their account table, without signing.
NextBuild ==
    \/ Reset
    \/ SetFeePayer
    \/ AddTransfer
    \/ AddCreateAccount
    \/ AddInstruction
    \/ AddFlagInstruction
    \/ AddMemo
    \/ GetAccountCount

SpecBuild == Init /\ [][NextBuild]_vars

\* Signing and serializing transactions near the capacity limits.
NextLong ==
    \/ Reset
    \/ SetFeePayer
    \/ SetRecentBlockhash
    \/ AddTransfer
    \/ AddLongMemo
    \/ AddWideInstruction
    \/ Sign
    \/ Serialize

SpecLong == Init /\ [][NextLong]_vars

\* Building transactions that fill the account table, and compiling it
\* through espsol_tx_get_account_count and espsol_tx_sign.
NextWide ==
    \/ Reset
    \/ SetFeePayer
    \/ AddTransfer
    \/ AddRoomyInstruction
    \/ Sign
    \/ GetAccountCount

SpecWide == Init /\ [][NextWide]_vars

\* Filling the instruction list to its capacity.
NextFull ==
    \/ Reset
    \/ FillMemo
    \/ LateTransfer
    \/ LateCreateAccount
    \/ LateInstruction

SpecFull == Init /\ [][NextFull]_vars

\* Creating, importing and clearing one keypair, and using it, also to sign
\* a transfer.
NextKeys ==
    \/ KeypairInit
    \/ KeypairClear
    \/ KeypairGenerate
    \/ KeypairFromSeed
    \/ KeypairFromPrivateKey
    \/ KeypairFromBase58
    \/ KeypairFromMnemonic
    \/ SignMessage
    \/ SignString
    \/ VerifyKeypair
    \/ GetAddress
    \/ KeypairToBase58
    \/ SetFeePayer
    \/ SetRecentBlockhash
    \/ AddTransfer
    \/ SignWithWallet

SpecKeys == Init /\ [][NextKeys]_vars

\* Decoding texts, and retrying when the buffer was too small.
NextDecode ==
    \/ DecodeBase58
    \/ DecodeBase64
    \/ DecodeHex
    \/ RetryBase58
    \/ RetryBase64
    \/ RetryHex

SpecDecode == Init /\ [][NextDecode]_vars

\* Encoding byte strings and decoding the text again.
NextRoundTrip ==
    \/ RoundTripBase58
    \/ RoundTripBase64
    \/ RoundTripHex

SpecRoundTrip == Init /\ [][NextRoundTrip]_vars

\* Decoding base-64 texts with padding characters anywhere.
NextBase64 == DecodeBase64Chars

SpecBase64 == Init /\ [][NextBase64]_vars

\* Validating mnemonic phrases.
NextMnemonic == MnemonicValidate

SpecMnemonic == Init /\ [][NextMnemonic]_vars

\* Searching program derived addresses.
NextPda == FindPda

SpecPda == Init /\ [][NextPda]_vars

\* RPC requests against a server that fails in every way.
NextRpc == RpcRequest \/ RpcAttempt

SpecRpc == Init /\ [][NextRpc]_vars

\* One application task and the event task of a WebSocket client.
NextWs ==
    \/ WsInit
    \/ WsCleanup
    \/ IsConnected
    \/ SubscribeTake
    \/ SubscribeSend
    \/ SubscribeReturn
    \/ UnsubscribeTake
    \/ UnsubscribeReturn
    \/ EventConnected
    \/ EventDisconnected
    \/ EventResponse
    \/ EventNotification

SpecWs == Init /\ [][NextWs]_vars

\* Serializing signed transfers into buffers of every short length.
NextSerialize ==
    \/ Reset
    \/ SetFeePayer
    \/ SetRecentBlockhash
    \/ AddTransfer
    \/ Sign
    \/ SerializeInto

SpecSerialize == Init /\ [][NextSerialize]_vars

\* Transactions with more required signers than signature slots.
NextCrowd ==
    \/ Reset
    \/ SetFeePayer
    \/ SetRecentBlockhash
    \/ AddCrowdInstruction
    \/ SignCrowd
    \/ Serialize

SpecCrowd == Init /\ [][NextCrowd]_vars

(* ------------------------------------------------------------------ *)
(* Properties                                                         *)
(* ------------------------------------------------------------------ *)
\* The signature slots of the required signers (slots beyond the array do
\* not exist).
RequiredSlots == { i \in SignerSlots : i < tx.required_signers }

\* Every required signer has a slot, and every such slot holds a signature.
AllSlotsHoldSignature ==
    /\ tx.required_signers <= ESPSOL_MAX_SIGNERS
    /\ \A i \in RequiredSlots : tx.signatures[i].complete

\* Every required signer has signed since the last successful mutation.
AllSlotsSignedSinceMutation ==
    /\ tx.required_signers <= ESPSOL_MAX_SIGNERS
    /\ \A i \in RequiredSlots : i \in resigned

\* C1: espsol_tx_is_signed returns true only if every signer slot
\* 0..required_signers-1 holds a signature stored by a successful
\* espsol_tx_sign.
C1_SignedOnlyWhenEverySlotSigned ==
    espsol_tx_is_signed(tx) => AllSlotsHoldSignature

\* C2: after a successful mutation (fee payer, blockhash, added instruction)
\* espsol_tx_is_signed stays false until every required signer has signed
\* again; a signature stored before the mutation never counts.  Stated for
\* the transactions whose required slots all hold a signature, so that only
\* a stale signature can refute it.
C2_StaleSignatureNeverCounts ==
    (espsol_tx_is_signed(tx) /\ AllSlotsHoldSignature)
        => AllSlotsSignedSinceMutation

\* The four classes of the account ordering, highest first.
Rank(e) ==
    IF e.is_signer /\ e.is_writable THEN 3
    ELSE IF e.is_signer THEN 2
    ELSE IF e.is_writable THEN 1
    ELSE 0

\* Every reference the transaction makes to an account, as a set.
ReferenceSet ==
    (IF tx.has_fee_payer THEN {Meta(tx.fee_payer, TRUE, TRUE)} ELSE {})
        \cup { Meta(tx.instructions[i].program_id, FALSE, FALSE) :
                 i \in 1..Len(tx.instructions) }
        \cup UNION { { tx.instructions[i].accounts[j] :
                         j \in 1..Len(tx.instructions[i].accounts) } :
                     i \in 1..Len(tx.instructions) }

ReferencedKeys == { r.pubkey : r \in ReferenceSet }

\* Position of the first reference to key k in the walk of compile_accounts.
FirstSeen(k) == FirstIndex(References(tx), k, 1)

TablePairs == { p \in (1..Len(tx.accounts)) \X (1..Len(tx.accounts)) : p[1] < p[2] }

\* C3: after a successful compile, two accounts of the same priority stand
\* in the table in the order in which they were first encountered (fee
\* payer, then each instruction's program id and accounts): a stable sort.
C3_EqualPriorityKeepsFirstSeenOrder ==
    tx.accounts_compiled =>
        \A p \in TablePairs :
            Rank(tx.accounts[p[1]]) = Rank(tx.accounts[p[2]])
                => FirstSeen(tx.accounts[p[1]].pubkey) < FirstSeen(tx.accounts[p[2]].pubkey)

\* C4: after a successful compile the table is ordered by descending
\* priority: writable signers, read-only signers, writable non-signers,
\* read-only non-signers.
C4_DescendingPriority ==
    tx.accounts_compiled =>
        \A p \in TablePairs : Rank(tx.accounts[p[1]]) >= Rank(tx.accounts[p[2]])

\* A compiled table that holds an account of each of the four classes.
C4_Witness ==
    /\ tx.accounts_compiled
    /\ last.op = "get_account_count"
    /\ \A c \in 0..3 : \E i \in 1..Len(tx.accounts) : Rank(tx.accounts[i]) = c

\* C5: after a successful compile, every key referenced by the fee payer or
\* an instruction (program id or account) appears exactly once in the table,
\* with is_signer and is_writable the OR of the flags of its references.
C5_EachKeyOnceWithFlagsOred ==
    tx.accounts_compiled =>
        \A k \in ReferencedKeys :
            /\ Cardinality({ i \in 1..Len(tx.accounts) : tx.accounts[i].pubkey = k }) = 1
            /\ \A i \in 1..Len(tx.accounts) :
                 tx.accounts[i].pubkey = k =>
                    /\ tx.accounts[i].is_signer
                         = (\E r \in ReferenceSet : r.pubkey = k /\ r.is_signer)
                    /\ tx.accounts[i].is_writable
                         = (\E r \in ReferenceSet : r.pubkey = k /\ r.is_writable)

\* A compiled table for a key referenced once as a read-only signer and once
\* as a writable non-signer.
C5_Witness ==
    /\ tx.accounts_compiled
    /\ last.op = "get_account_count"
    /\ \E r1, r2 \in ReferenceSet :
         /\ r1.pubkey = r2.pubkey
         /\ r1.is_signer /\ ~r1.is_writable
         /\ ~r2.is_signer /\ r2.is_writable

\* C6: when a fee payer is set and the table compiles, the fee payer is
\* entry 0 of the table, flagged signer and writable, whatever the
\* instructions; so the slot espsol_tx_sign gives the fee payer is slot 0.
C6_FeePayerIsFirst ==
    (tx.has_fee_payer /\ tx.accounts_compiled) =>
        /\ Len(tx.accounts) >= 1
        /\ tx.accounts[1] = Meta(tx.fee_payer, TRUE, TRUE)
        /\ FindSigner(tx, tx.fee_payer, 0) = 0

\* A compiled table in which another writable signer follows the fee payer.
C6_Witness ==
    /\ tx.has_fee_payer /\ tx.accounts_compiled
    /\ last.op = "get_account_count"
    /\ \E i \in 2..Len(tx.accounts) : Rank(tx.accounts[i]) = 3

\* Key k is one of the first required_signers entries of the account table.
IsRequiredSigner(k) ==
    \E i \in 1..Len(tx.accounts) : i <= tx.required_signers /\ tx.accounts[i].pubkey = k

\* Bytes a compact-u16 (short vector) length takes.
ShortVecLen(n) == IF n < 128 THEN 1 ELSE IF n < 16384 THEN 2 ELSE 3

\* Bytes of the compiled instructions i.. of the message.
RECURSIVE InstructionsSize(_)
InstructionsSize(i) ==
    IF i > Len(tx.instructions) THEN 0
    ELSE LET ix == tx.instructions[i] IN
         1 + ShortVecLen(Len(ix.accounts)) + Len(ix.accounts)
           + ShortVecLen(ix.data_len) + ix.data_len + InstructionsSize(i + 1)

\* Bytes of the message of the compiled transaction: header, account keys,
\* blockhash, instructions.
MessageSize ==
    3 + ShortVecLen(Len(tx.accounts)) + Len(tx.accounts) * ESPSOL_PUBKEY_SIZE
      + ESPSOL_BLOCKHASH_SIZE + ShortVecLen(Len(tx.instructions)) + InstructionsSize(1)

\* The call just made is espsol_tx_sign with an initialized keypair whose key
\* is not a required signer of the table the call compiled.
SignedByStranger ==
    /\ last.op = "sign" /\ last.initialized
    /\ tx.accounts_compiled
    /\ ~IsRequiredSigner(last.key)

C8_NoFeePayerNeverSigned ==
    ~tx.has_fee_payer =>
        /\ (last.op = "sign" /\ last.initialized)
              => last.err = ESP_ERR_ESPSOL_TX_BUILD_ERROR
        /\ ~espsol_tx_is_signed(tx)

\* C9 as claimed: serializing a transaction on which no blockhash is set,
\* through espsol_tx_serialize or inside espsol_tx_sign, fails with
\* ESP_ERR_ESPSOL_TX_BUILD_ERROR.
C9_NoBlockhashGetsBuildError ==
    (last.op \in {"serialize", "sign"} /\ ~tx.has_blockhash)
        => last.err = ESP_ERR_ESPSOL_TX_BUILD_ERROR

\* C9 as amended: with no blockhash set, espsol_tx_serialize fails with
\* ESP_ERR_ESPSOL_TX_NOT_SIGNED and writes nothing, and espsol_tx_sign fails
\* with ESP_ERR_ESPSOL_TX_BUILD_ERROR unless the account table does not
\* compile, when it fails with ESP_ERR_ESPSOL_MAX_ACCOUNTS.
C9_NoBlockhashNotSignedOrBuildError ==
    ~tx.has_blockhash =>
        /\ last.op = "serialize"
              => (last.err = ESP_ERR_ESPSOL_TX_NOT_SIGNED /\ last.hi = 0)
        /\ last.op = "sign"
              => last.err = IF tx.accounts_compiled
                            THEN ESP_ERR_ESPSOL_TX_BUILD_ERROR
                            ELSE ESP_ERR_ESPSOL_MAX_ACCOUNTS

\* espsol_tx_sign by the fee payer, refused only for the missing blockhash.
C9_Witness ==
    /\ last.op = "sign" /\ last.initialized
    /\ ~tx.has_blockhash
    /\ tx.has_fee_payer /\ last.key = tx.fee_payer
    /\ Len(tx.instructions) > 0
    /\ last.err = ESP_ERR_ESPSOL_TX_BUILD_ERROR

\* The transaction has not been signed by all its required signers: its
\* table is not compiled, or a required slot holds no signature.
NotAllSigned == ~tx.accounts_compiled \/ ~AllSlotsHoldSignature

\* C10: espsol_tx_serialize, espsol_tx_to_base64 and espsol_tx_to_base58
\* (given an output buffer) return ESP_ERR_ESPSOL_TX_NOT_SIGNED and write
\* nothing whenever not all required signers have signed.
C10_UnsignedIsNotSerialized ==
    (/\ last.op \in {"serialize", "to_base64", "to_base58"}
     /\ (last.op = "serialize" \/ last.len > 0)
     /\ NotAllSigned)
        => (last.err = ESP_ERR_ESPSOL_TX_NOT_SIGNED /\ last.hi = 0)

\* C11: espsol_tx_sign called again with the same keypair, with no other call
\* in between, returns what the first call returned and leaves the
\* transaction as the first call left it: the same signature in the same
\* slot, the same signature count, the same is_signed.
C11_ResignChangesNothing ==
    [][(last'.op = "sign" /\ last'.repeat) => (tx' = tx /\ last'.err = last.err)]_vars

\* A second successful espsol_tx_sign by the fee payer of a transaction that
\* has a second required signer.
C11_Witness ==
    /\ last.op = "sign" /\ last.repeat /\ last.err = ESP_OK
    /\ tx.has_fee_payer /\ last.key = tx.fee_payer
    /\ tx.required_signers = 2
    /\ espsol_tx_get_signature_count(tx) = 1

\* The operations that change the fee payer or the instruction list.
TableMutators ==
    {"set_fee_payer", "add_transfer", "add_create_account", "add_instruction",
     "add_memo"}

C13_TooManyKeysGetMaxAccounts ==
    /\ Len(tx.accounts) <= ESPSOL_MAX_ACCOUNTS
    /\ (last.op \in {"sign", "get_account_count"}
          /\ Cardinality(ReferencedKeys) > ESPSOL_MAX_ACCOUNTS)
            => (last.err = ESP_ERR_ESPSOL_MAX_ACCOUNTS /\ ~tx.accounts_compiled)

\* A compile refused for 21 distinct keys, with the table filled to 20.
C13_Witness ==
    /\ last.op = "get_account_count"
    /\ Cardinality(ReferencedKeys) = ESPSOL_MAX_ACCOUNTS + 1
    /\ last.err = ESP_ERR_ESPSOL_MAX_ACCOUNTS
    /\ Len(tx.accounts) = ESPSOL_MAX_ACCOUNTS

AddOperations == {"add_transfer", "add_create_account", "add_instruction", "add_memo"}

SingleTransferFromFeePayer ==
    /\ tx.has_fee_payer /\ tx.has_blockhash
    /\ Len(tx.instructions) = 1
    /\ tx.instructions[1].program_id = ESPSOL_SYSTEM_PROGRAM_ID
    /\ Len(tx.instructions[1].accounts) = 2
    /\ tx.instructions[1].accounts[1] = Meta(tx.fee_payer, TRUE, TRUE)
    /\ ~tx.instructions[1].accounts[2].is_signer

\* C15: a transaction with fee payer F, a recent blockhash and a single
\* transfer from F has exactly one required signer; espsol_tx_sign with F's
\* keypair succeeds and makes espsol_tx_is_signed true with a signature count
\* of 1; espsol_tx_serialize into ESPSOL_MAX_TX_SIZE bytes then succeeds
\* with an output of at most 1232 bytes.
C15_SingleTransferSignsAndSerializes ==
    SingleTransferFromFeePayer =>
        /\ tx.accounts_compiled => tx.required_signers = 1
        /\ (last.op = "sign" /\ last.initialized /\ last.key = tx.fee_payer)
              => /\ last.err = ESP_OK
                 /\ espsol_tx_is_signed(tx)
                 /\ espsol_tx_get_signature_count(tx) = 1
        /\ (last.op = "serialize" /\ last.len = ESPSOL_MAX_TX_SIZE
               /\ espsol_tx_is_signed(tx))
              => /\ last.err = ESP_OK
                 /\ last.out_len > 0 /\ last.out_len <= ESPSOL_MAX_TX_SIZE

\* C16: every keypair with initialized = true, whichever constructor produced
\* it (generate, from_seed, from_private_key, from_base58, from_mnemonic), has
\* public_key equal to the Ed25519 public key derived from private_key[0..32].
C16_InitializedKeypairIsDerived ==
    wallet.initialized => wallet.public_key = Ed25519Public(wallet.private_key[1])

\* The operations of espsol_crypto.h that take a keypair, and all operations
\* that take one.
CryptoKeypairUsers ==
    {"espsol_sign", "espsol_sign_string", "espsol_verify_keypair",
     "keypair_get_address", "keypair_to_base58"}
KeypairUsers == CryptoKeypairUsers \cup {"sign"}

C18_TemporariesAreZeroed == last.residue = {}

\* C19: whenever an operation returns ESP_ERR_ESPSOL_BUFFER_TOO_SMALL, the
\* same call with a sufficiently larger output buffer no longer does; in
\* particular espsol_tx_to_base58 (through espsol_base58_encode) into the
\* largest buffer the caller has, which holds the text of any transaction.
C19_LargerBufferIsEnough ==
    (/\ last.op \in {"to_base64", "to_base58"}
     /\ \A n \in OutputLengths : n <= last.len
     /\ last.len >= espsol_base58_encoded_len(ESPSOL_MAX_TX_SIZE))
        => last.err # ESP_ERR_ESPSOL_BUFFER_TOO_SMALL

Decoders == {"base58_decode", "base64_decode", "hex_decode"}

\* The number of bytes a text decodes to.
RequiredBytes(op, input) ==
    IF op = "base58_decode" THEN input.ones + input.bytes
    ELSE IF op = "base64_decode" THEN (input.len \div 4) * 3 - input.padding
    ELSE input.len \div 2

\* C20: whenever espsol_base58_decode, espsol_base64_decode or
\* espsol_hex_decode returns ESP_ERR_ESPSOL_BUFFER_TOO_SMALL, the output
\* length parameter has been set to the number of bytes required, and
\* retrying the same input with a buffer of that size succeeds.
C20_TooSmallReportsSizeAndRetrySucceeds ==
    last.op \in Decoders =>
        /\ last.err = ESP_ERR_ESPSOL_BUFFER_TOO_SMALL
               => last.out_len = RequiredBytes(last.op, last.input)
        /\ last.repeat => last.err = ESP_OK

RoundTrips == {"base58_round_trip", "base64_round_trip", "hex_round_trip"}

\* C21: for every byte string of length 0 to 256, encoding it with
\* espsol_base58_encode, espsol_base64_encode or espsol_hex_encode into a
\* large enough buffer succeeds, and decoding the result with the matching
\* decoder succeeds and returns the original length.
C21_EncodeThenDecodeGivesInput ==
    last.op \in RoundTrips => (last.err = ESP_OK /\ last.out_len = last.len)

\* A '=' outside a final run of one or two padding characters.
MisplacedPadding(chars) ==
    \E i \in 1..Len(chars) :
        /\ chars[i] = "="
        /\ \/ i < Len(chars) - 1
           \/ (i = Len(chars) - 1 /\ chars[Len(chars)] # "=")

\* C22: espsol_base64_decode returns ESP_ERR_ESPSOL_INVALID_BASE64 for every
\* input in which a '=' appears anywhere other than in a final run of one or
\* two padding characters; it never returns ESP_OK for such input.
C22_MisplacedPaddingIsInvalid ==
    (last.op = "base64_decode_chars" /\ MisplacedPadding(last.input))
        => last.err = ESP_ERR_ESPSOL_INVALID_BASE64

\* The tokens of a phrase when it is split at the items in seps: the
\* sequence of its maximal runs of other items.
RECURSIVE Tokens(_, _, _, _)
Tokens(chars, seps, i, token) ==
    IF i > Len(chars) THEN (IF token = <<>> THEN <<>> ELSE <<token>>)
    ELSE IF chars[i] \in seps
    THEN (IF token = <<>> THEN <<>> ELSE <<token>>) \o Tokens(chars, seps, i + 1, <<>>)
    ELSE Tokens(chars, seps, i + 1, Append(token, chars[i]))

\* The phrase, split at seps, has 12 or 24 words, every word is in the
\* dictionary and the checksum bits match.
ValidPhrase(input, seps) ==
    LET words == Tokens(input.chars, seps, 1, <<>>) IN
    /\ Len(words) \in {ESPSOL_MNEMONIC_12_WORDS, ESPSOL_MNEMONIC_24_WORDS}
    /\ \A i \in 1..Len(words) : words[i] = <<"w">>
    /\ input.checksum

\* C23 (as stated): espsol_mnemonic_validate returns ESP_OK exactly when the
\* phrase, tokenized on whitespace, has 12 or 24 words, every word is in the
\* dictionary and the checksum bits match; for every other phrase it returns
\* ESP_ERR_ESPSOL_INVALID_MNEMONIC.
C23_ValidExactlyOnWhitespaceTokens ==
    last.op = "mnemonic_validate" =>
        last.err = IF ValidPhrase(last.input, {" ", "t"}) THEN ESP_OK
                   ELSE ESP_ERR_ESPSOL_INVALID_MNEMONIC

\* C23 (amended): the same with the phrase tokenized on the space character
\* only; a tab or a newline is part of a word, and that word is not in the
\* dictionary.
C23_ValidExactlyOnSpaceTokens ==
    last.op = "mnemonic_validate" =>
        last.err = IF ValidPhrase(last.input, {" "}) THEN ESP_OK
                   ELSE ESP_ERR_ESPSOL_INVALID_MNEMONIC

\* Twelve dictionary words with a matching checksum, two of them separated
\* by a tab, are rejected; so are they accepted with extra spaces around.
C23_Witness ==
    /\ last.op = "mnemonic_validate"
    /\ last.err = ESP_ERR_ESPSOL_INVALID_MNEMONIC
    /\ ValidPhrase(last.input, {" ", "t"})
    /\ espsol_mnemonic_word_count(last.input.chars) = ESPSOL_MNEMONIC_12_WORDS - 1

\* C24: whenever espsol_token_find_pda returns ESP_OK the returned address is
\* not a point of the curve and the bump is the first one, from 255 down,
\* whose candidate is off the curve; it returns ESP_ERR_ESPSOL_CRYPTO_ERROR
\* only when all 256 candidates are on the curve.
C24_PdaIsFirstOffCurveCandidate ==
    last.op = "find_pda" =>
        /\ last.err = ESP_OK =>
            /\ ~Decompresses(Candidate(last.input, last.out_len))
            /\ \A b \in (last.out_len + 1)..MaxBump :
                   Decompresses(Candidate(last.input, b))
        /\ last.err = ESP_ERR_ESPSOL_CRYPTO_ERROR =>
            \A b \in 0..MaxBump : Decompresses(Candidate(last.input, b))

\* C25: for every max_retries from 0 to 255 execute_rpc_request makes at
\* most max_retries + 1 requests; it goes round the loop again only after a
\* network error or a rate limit; with max_retries = 0 it makes exactly one
\* request.
C25_AtMostMaxRetriesPlusOneAttempts ==
    /\ rpc.requests <= rpc.max_retries + 1
    /\ (rpc.pc = "loop" /\ rpc.requests > 0) => Retryable(rpc.err)
    /\ (rpc.pc = "done" /\ rpc.max_retries = 0) => rpc.requests = 1

\* C26: espsol_ws_cleanup sends an unsubscribe request for every
\* subscription that is still active before it closes the connection and
\* frees the client.
C26_CleanupUnsubscribesActive ==
    ~ws.alive =>
        \A i \in Slots :
            ws.subscriptions[i].active =>
                \E m \in ws.sent : /\ m.method = "accountUnsubscribe"
                                   /\ m.sub = ws.subscriptions[i].id

\* C29: after espsol_ws_account_subscribe returned ESP_OK and the server
\* confirmed the subscription, every notification the server sends for it
\* reaches the event callback, identified by the subscription id that the
\* subscribe call returned.
C29_NotificationsReachCallback ==
    (/\ last.op = "ws_notification"
     /\ find_subscription(ws.subscriptions, last.input.request) >= 0) =>
        /\ last.input.delivered
        /\ last.input.subscription_id = last.input.request

\* The calls and events that touch the client's shared fields.
WsAccessOps ==
    {"ws_is_connected", "ws_subscribe_send", "ws_account_subscribe",
     "ws_account_unsubscribe", "ws_event_connected", "ws_event_disconnected",
     "ws_notification"}

\* C30: the connected flag, the request-id counter and the subscription
\* table are read or written only by a task that holds the client mutex, so
\* the event task never touches them while the application task is inside a
\* subscribe or unsubscribe call.
C30_SharedFieldsOnlyUnderMutex ==
    (last.op \in WsAccessOps /\ last.input.fields # {}) =>
        /\ last.input.locked
        /\ ~last.input.concurrent

\* C27: for every buffer length and every transaction state espsol_tx_serialize
\* and the message serialization inside it write no byte at an offset greater
\* than or equal to the buffer length, and the call returns
\* ESP_ERR_ESPSOL_BUFFER_TOO_SMALL whenever the serialized transaction is
\* longer than the buffer.
C27_SerializeStaysInsideBuffer ==
    last.op = "serialize" =>
        /\ last.hi <= last.len
        /\ (/\ espsol_tx_serialize(tx, ESPSOL_MAX_TX_SIZE).err = ESP_OK
            /\ espsol_tx_serialize(tx, ESPSOL_MAX_TX_SIZE).out_len > last.len)
               => last.err = ESP_ERR_ESPSOL_BUFFER_TOO_SMALL

\* C28: no signature slot with index 4 or higher is read or written: every
\* slot a sign call writes is one of the four, the signature count never
\* exceeds four, and a transaction whose table has more than 4 required
\* signers is never reported as signed and never serialized successfully.
C28_NoSlotBeyondMaxSigners ==
    /\ resigned \subseteq SignerSlots
    /\ tx.signer_count <= ESPSOL_MAX_SIGNERS
    /\ tx.required_signers > ESPSOL_MAX_SIGNERS =>
           /\ ~espsol_tx_is_signed(tx)
           /\ last.op = "serialize" => last.err # ESP_OK

\* Five required signers, the first four of them have signed, the fifth was
\* refused, and the transaction is not serialized.
C28_Witness ==
    /\ last.op = "serialize"
    /\ last.err = ESP_ERR_ESPSOL_TX_NOT_SIGNED
    /\ tx.accounts_compiled
    /\ tx.required_signers = ESPSOL_MAX_SIGNERS + 1
    /\ resigned = SignerSlots
    /\ tx.signer_count = ESPSOL_MAX_SIGNERS

====
